---- MODULE Spec2Model ----
(***************************************************************************)
(* Thesis Strength Analyzer: the analysis pipeline of                      *)
(* backend/analyzer.py (StrengthAnalyzer.analyze and the stages it calls)  *)
(* and the upload endpoint of backend/main.py.                             *)
(*                                                                         *)
(* Conventions.                                                            *)
(*  - A sentence is held as the record of everything the code tests on its *)
(*    text (substring and regex hits, lengths); the text itself is kept    *)
(*    as a string so that records can be compared with the input.          *)
(*  - Component scores are floats that are multiples of 0.5 for every      *)
(*    input used here; they are held as integers counting half points      *)
(*    (40 = 20.0 points).                                                  *)
(*  - Confidence and percentages are held as exact fractions <<num, den>>  *)
(*    with den > 0.                                                        *)
(*  - A Python dict is a function on the keys it has; dict.get is Get.     *)
(***************************************************************************)
EXTENDS Integers, Sequences, FiniteSets, TLC

Min(a, b) == IF a <= b THEN a ELSE b
Max(a, b) == IF a >= b THEN a ELSE b

\* dict.get(k, default)
Get(d, k, default) == IF k \in DOMAIN d THEN d[k] ELSE default

\* A JSON object parsed from the LLM response lists under "ill_typed" the
\* keys whose value has another JSON type than the schema of prompts.py
\* gives it (a string for an object, a string for a number, ...); such a value
\* is not held in the record
IllTyped(d, k) == k \in Get(d, "ill_typed", {})

\* fractions <<num, den>>, den > 0
RatLess(a, b) == a[1] * b[2] < b[1] * a[2]
RatEq(a, b) == a[1] * b[2] = b[1] * a[2]

\* points -> half points
Pts(x) == 2 * x

-----------------------------------------------------------------------------
(* models.py enumerations *)

\* insertion order of pattern_scores (analyzer.py 324-330): max() returns the
\* first key attaining the maximum
TypeOrder == <<"FACT", "OPINION", "ASSUMPTION", "PROJECTION", "CONTEXT">>

SentenceType == {"FACT", "ASSUMPTION", "OPINION", "PROJECTION", "CONTEXT"}

SupportLevel == {"SUPPORTED", "PARTIAL", "UNSUPPORTED"}

SentenceRole == {"Foundation", "Evidence", "Bridge", "Conclusion", "Tangent"}

-----------------------------------------------------------------------------
\* a score per type, in the order FACT, OPINION, ASSUMPTION, PROJECTION, CONTEXT
TypeScores(fact, opinion, assumption, projection, context) ==
  [t \in SentenceType |->
     CASE t = "FACT" -> fact
       [] t = "OPINION" -> opinion
       [] t = "ASSUMPTION" -> assumption
       [] t = "PROJECTION" -> projection
       [] OTHER -> context]

(* The theses analysed.  Each is a concrete text; its record holds what     *)
(* _preprocess and the scorers count on the whole text and, per sentence    *)
(* of the segmenter's output, what the classifier and the derived analyses  *)
(* test.  entity_count and the DATE entities are the tagger's output.       *)

\* the source scores this text: evidence 0.0, clarity 5.0, risk 0, actionability 0
TextEmpty ==
  [name |-> "TextEmpty", stripped_len |-> 0,
   sentences |-> << >>,
   numerical_data_count |-> 0, entity_count |-> 0, source_citation_count |-> 0, recent_dates |-> 0,
   stance_count |-> 0, target_count |-> 0, vague_word_count |-> 0, word_count |-> 0,
   risk_count |-> 0, exit_count |-> 0, sizing_count |-> 0,
   action_count |-> 0, entry_count |-> 0, monitor_count |-> 0,
   positive_words |-> 0, negative_words |-> 0, has_risk |-> FALSE, has_downside |-> FALSE, other_counter |-> FALSE]

\* the source scores this text: evidence 0.0, clarity 7.0, risk 0, actionability 2
TextShort ==
  [name |-> "TextShort", stripped_len |-> 26,
   sentences |-> <<
     [text |-> "Buy now.", chars |-> 8, words |-> 2, first_int |-> -1,
       pattern |-> TypeScores(0, 0, 0, 0, 0),
       certainty_high |-> FALSE, has_evidence |-> FALSE, overconfident |-> "", vague |-> FALSE,
       strong_marker |-> FALSE, statement_ref |-> FALSE, moderate_marker |-> FALSE, numeric |-> FALSE, weasel |-> FALSE,
       thesis |-> FALSE, concluding |-> FALSE, counter |-> FALSE,
       has_source |-> FALSE, has_numbers |-> FALSE, has_certainty |-> FALSE, has_prediction |-> FALSE, has_opinion |-> FALSE,
       conditional |-> FALSE, digits |-> FALSE, bullish |-> TRUE, bearish |-> FALSE, contrast |-> FALSE],
     [text |-> "Margins are fine.", chars |-> 17, words |-> 3, first_int |-> -1,
       pattern |-> TypeScores(0, 0, 0, 0, 0),
       certainty_high |-> FALSE, has_evidence |-> FALSE, overconfident |-> "", vague |-> FALSE,
       strong_marker |-> FALSE, statement_ref |-> FALSE, moderate_marker |-> FALSE, numeric |-> FALSE, weasel |-> FALSE,
       thesis |-> FALSE, concluding |-> FALSE, counter |-> FALSE,
       has_source |-> FALSE, has_numbers |-> FALSE, has_certainty |-> FALSE, has_prediction |-> FALSE, has_opinion |-> FALSE,
       conditional |-> FALSE, digits |-> FALSE, bullish |-> FALSE, bearish |-> FALSE, contrast |-> FALSE]
   >>,
   numerical_data_count |-> 0, entity_count |-> 0, source_citation_count |-> 0, recent_dates |-> 0,
   stance_count |-> 1, target_count |-> 0, vague_word_count |-> 0, word_count |-> 5,
   risk_count |-> 0, exit_count |-> 0, sizing_count |-> 0,
   action_count |-> 1, entry_count |-> 0, monitor_count |-> 0,
   positive_words |-> 0, negative_words |-> 0, has_risk |-> FALSE, has_downside |-> FALSE, other_counter |-> FALSE]

\* the source scores this text: evidence 5.5, clarity 6.5, risk 0, actionability 0
TextScenario1 ==
  [name |-> "TextScenario1", stripped_len |-> 81,
   sentences |-> <<
     [text |-> "Revenue grew 20% according to the 10-K.", chars |-> 39, words |-> 7, first_int |-> 20,
       pattern |-> TypeScores(8, 0, 0, 0, 0),
       certainty_high |-> FALSE, has_evidence |-> TRUE, overconfident |-> "", vague |-> FALSE,
       strong_marker |-> TRUE, statement_ref |-> TRUE, moderate_marker |-> FALSE, numeric |-> TRUE, weasel |-> FALSE,
       thesis |-> FALSE, concluding |-> FALSE, counter |-> FALSE,
       has_source |-> TRUE, has_numbers |-> TRUE, has_certainty |-> FALSE, has_prediction |-> FALSE, has_opinion |-> FALSE,
       conditional |-> FALSE, digits |-> TRUE, bullish |-> FALSE, bearish |-> FALSE, contrast |-> FALSE],
     [text |-> "We believe the stock will double by 2027.", chars |-> 41, words |-> 8, first_int |-> 2027,
       pattern |-> TypeScores(0, 3, 0, 3, 0),
       certainty_high |-> FALSE, has_evidence |-> FALSE, overconfident |-> "", vague |-> FALSE,
       strong_marker |-> FALSE, statement_ref |-> FALSE, moderate_marker |-> FALSE, numeric |-> FALSE, weasel |-> FALSE,
       thesis |-> FALSE, concluding |-> FALSE, counter |-> FALSE,
       has_source |-> FALSE, has_numbers |-> FALSE, has_certainty |-> TRUE, has_prediction |-> FALSE, has_opinion |-> FALSE,
       conditional |-> FALSE, digits |-> TRUE, bullish |-> FALSE, bearish |-> FALSE, contrast |-> FALSE]
   >>,
   numerical_data_count |-> 1, entity_count |-> 2, source_citation_count |-> 2, recent_dates |-> 0,
   stance_count |-> 0, target_count |-> 1, vague_word_count |-> 0, word_count |-> 15,
   risk_count |-> 0, exit_count |-> 0, sizing_count |-> 0,
   action_count |-> 0, entry_count |-> 0, monitor_count |-> 0,
   positive_words |-> 0, negative_words |-> 0, has_risk |-> FALSE, has_downside |-> FALSE, other_counter |-> FALSE]

\* the source scores this text: evidence 0.0, clarity 9.0, risk 0, actionability 0
TextBullish ==
  [name |-> "TextBullish", stripped_len |-> 131,
   sentences |-> <<
     [text |-> "Our thesis is bullish on long term growth.", chars |-> 42, words |-> 8, first_int |-> -1,
       pattern |-> TypeScores(0, 0, 0, 0, 0),
       certainty_high |-> FALSE, has_evidence |-> FALSE, overconfident |-> "", vague |-> FALSE,
       strong_marker |-> FALSE, statement_ref |-> FALSE, moderate_marker |-> FALSE, numeric |-> FALSE, weasel |-> FALSE,
       thesis |-> TRUE, concluding |-> FALSE, counter |-> FALSE,
       has_source |-> FALSE, has_numbers |-> FALSE, has_certainty |-> FALSE, has_prediction |-> FALSE, has_opinion |-> FALSE,
       conditional |-> FALSE, digits |-> FALSE, bullish |-> TRUE, bearish |-> FALSE, contrast |-> FALSE],
     [text |-> "Sales could decline if demand is weak.", chars |-> 38, words |-> 7, first_int |-> -1,
       pattern |-> TypeScores(0, 0, 3, 0, 0),
       certainty_high |-> FALSE, has_evidence |-> FALSE, overconfident |-> "", vague |-> FALSE,
       strong_marker |-> FALSE, statement_ref |-> FALSE, moderate_marker |-> FALSE, numeric |-> FALSE, weasel |-> TRUE,
       thesis |-> FALSE, concluding |-> FALSE, counter |-> FALSE,
       has_source |-> FALSE, has_numbers |-> FALSE, has_certainty |-> FALSE, has_prediction |-> FALSE, has_opinion |-> FALSE,
       conditional |-> TRUE, digits |-> FALSE, bullish |-> FALSE, bearish |-> TRUE, contrast |-> FALSE],
     [text |-> "Margins will definitely expand to the best level.", chars |-> 49, words |-> 8, first_int |-> -1,
       pattern |-> TypeScores(0, 0, 0, 3, 0),
       certainty_high |-> TRUE, has_evidence |-> FALSE, overconfident |-> "will definitely", vague |-> FALSE,
       strong_marker |-> FALSE, statement_ref |-> FALSE, moderate_marker |-> FALSE, numeric |-> FALSE, weasel |-> FALSE,
       thesis |-> FALSE, concluding |-> FALSE, counter |-> FALSE,
       has_source |-> FALSE, has_numbers |-> FALSE, has_certainty |-> TRUE, has_prediction |-> FALSE, has_opinion |-> TRUE,
       conditional |-> FALSE, digits |-> FALSE, bullish |-> TRUE, bearish |-> FALSE, contrast |-> FALSE]
   >>,
   numerical_data_count |-> 0, entity_count |-> 0, source_citation_count |-> 0, recent_dates |-> 0,
   stance_count |-> 2, target_count |-> 0, vague_word_count |-> 0, word_count |-> 23,
   risk_count |-> 0, exit_count |-> 0, sizing_count |-> 0,
   action_count |-> 0, entry_count |-> 0, monitor_count |-> 0,
   positive_words |-> 3, negative_words |-> 2, has_risk |-> FALSE, has_downside |-> FALSE, other_counter |-> FALSE]

\* the source scores this text: evidence 20, clarity 20, risk 18, actionability 20
TextStrong ==
  [name |-> "TextStrong", stripped_len |-> 430,
   sentences |-> <<
     [text |-> "Revenue increased 23% in Q3 2025 and profit rose 12% to $5,200 according to Bloomberg, confirmed and reported in the annual report for 2024-25.", chars |-> 143, words |-> 24, first_int |-> 23,
       pattern |-> TypeScores(20, 0, 0, 0, 0),
       certainty_high |-> FALSE, has_evidence |-> TRUE, overconfident |-> "", vague |-> FALSE,
       strong_marker |-> TRUE, statement_ref |-> TRUE, moderate_marker |-> FALSE, numeric |-> TRUE, weasel |-> FALSE,
       thesis |-> FALSE, concluding |-> FALSE, counter |-> FALSE,
       has_source |-> TRUE, has_numbers |-> TRUE, has_certainty |-> FALSE, has_prediction |-> FALSE, has_opinion |-> FALSE,
       conditional |-> FALSE, digits |-> TRUE, bullish |-> FALSE, bearish |-> FALSE, contrast |-> FALSE],
     [text |-> "We are bullish and buy at $40 with a target price of $60 and a stop loss at $35; invest 5% allocation, position size cap 10%.", chars |-> 125, words |-> 26, first_int |-> 40,
       pattern |-> TypeScores(5, 0, 0, 0, 0),
       certainty_high |-> FALSE, has_evidence |-> FALSE, overconfident |-> "", vague |-> FALSE,
       strong_marker |-> FALSE, statement_ref |-> FALSE, moderate_marker |-> FALSE, numeric |-> TRUE, weasel |-> FALSE,
       thesis |-> FALSE, concluding |-> FALSE, counter |-> FALSE,
       has_source |-> FALSE, has_numbers |-> TRUE, has_certainty |-> FALSE, has_prediction |-> FALSE, has_opinion |-> FALSE,
       conditional |-> FALSE, digits |-> TRUE, bullish |-> TRUE, bearish |-> FALSE, contrast |-> FALSE],
     [text |-> "However the downside risk is a bear case where headwinds persist, so hedge, monitor the catalyst, track the trigger, exit when the signal fails and sell at $30.", chars |-> 160, words |-> 28, first_int |-> 30,
       pattern |-> TypeScores(2, 0, 0, 0, 0),
       certainty_high |-> FALSE, has_evidence |-> FALSE, overconfident |-> "", vague |-> FALSE,
       strong_marker |-> FALSE, statement_ref |-> FALSE, moderate_marker |-> FALSE, numeric |-> TRUE, weasel |-> FALSE,
       thesis |-> FALSE, concluding |-> FALSE, counter |-> TRUE,
       has_source |-> FALSE, has_numbers |-> TRUE, has_certainty |-> FALSE, has_prediction |-> FALSE, has_opinion |-> FALSE,
       conditional |-> FALSE, digits |-> TRUE, bullish |-> FALSE, bearish |-> TRUE, contrast |-> TRUE]
   >>,
   numerical_data_count |-> 11, entity_count |-> 6, source_citation_count |-> 4, recent_dates |-> 4,
   stance_count |-> 4, target_count |-> 11, vague_word_count |-> 0, word_count |-> 78,
   risk_count |-> 4, exit_count |-> 4, sizing_count |-> 3,
   action_count |-> 5, entry_count |-> 5, monitor_count |-> 5,
   positive_words |-> 2, negative_words |-> 1, has_risk |-> TRUE, has_downside |-> TRUE, other_counter |-> TRUE]

\* the source scores this text: evidence 13.0, clarity 16.0, risk 14, actionability 12
TextMedium ==
  [name |-> "TextMedium", stripped_len |-> 263,
   sentences |-> <<
     [text |-> "Sales rose 15% in 2025 according to Reuters and the company announced a $2,000 dividend.", chars |-> 88, words |-> 15, first_int |-> 15,
       pattern |-> TypeScores(11, 0, 0, 0, 0),
       certainty_high |-> FALSE, has_evidence |-> TRUE, overconfident |-> "", vague |-> FALSE,
       strong_marker |-> TRUE, statement_ref |-> FALSE, moderate_marker |-> FALSE, numeric |-> TRUE, weasel |-> FALSE,
       thesis |-> FALSE, concluding |-> FALSE, counter |-> FALSE,
       has_source |-> TRUE, has_numbers |-> TRUE, has_certainty |-> FALSE, has_prediction |-> FALSE, has_opinion |-> FALSE,
       conditional |-> FALSE, digits |-> TRUE, bullish |-> FALSE, bearish |-> FALSE, contrast |-> FALSE],
     [text |-> "We are bullish, so buy at $50 and invest with a 5% allocation and a small position size.", chars |-> 88, words |-> 18, first_int |-> 50,
       pattern |-> TypeScores(5, 0, 0, 0, 0),
       certainty_high |-> FALSE, has_evidence |-> FALSE, overconfident |-> "", vague |-> FALSE,
       strong_marker |-> FALSE, statement_ref |-> FALSE, moderate_marker |-> FALSE, numeric |-> TRUE, weasel |-> FALSE,
       thesis |-> FALSE, concluding |-> FALSE, counter |-> FALSE,
       has_source |-> FALSE, has_numbers |-> TRUE, has_certainty |-> FALSE, has_prediction |-> FALSE, has_opinion |-> FALSE,
       conditional |-> FALSE, digits |-> TRUE, bullish |-> TRUE, bearish |-> FALSE, contrast |-> FALSE],
     [text |-> "The main risk is a downside scenario with headwinds, so hedge and track the catalyst.", chars |-> 85, words |-> 15, first_int |-> -1,
       pattern |-> TypeScores(0, 0, 0, 0, 0),
       certainty_high |-> FALSE, has_evidence |-> FALSE, overconfident |-> "", vague |-> FALSE,
       strong_marker |-> FALSE, statement_ref |-> FALSE, moderate_marker |-> FALSE, numeric |-> FALSE, weasel |-> FALSE,
       thesis |-> FALSE, concluding |-> FALSE, counter |-> TRUE,
       has_source |-> FALSE, has_numbers |-> FALSE, has_certainty |-> FALSE, has_prediction |-> FALSE, has_opinion |-> FALSE,
       conditional |-> FALSE, digits |-> FALSE, bullish |-> FALSE, bearish |-> TRUE, contrast |-> FALSE]
   >>,
   numerical_data_count |-> 4, entity_count |-> 5, source_citation_count |-> 2, recent_dates |-> 1,
   stance_count |-> 3, target_count |-> 4, vague_word_count |-> 0, word_count |-> 48,
   risk_count |-> 3, exit_count |-> 2, sizing_count |-> 2,
   action_count |-> 3, entry_count |-> 1, monitor_count |-> 2,
   positive_words |-> 1, negative_words |-> 0, has_risk |-> TRUE, has_downside |-> TRUE, other_counter |-> FALSE]

\* the source scores this text: evidence 5.5, clarity 9.5, risk 2, actionability 8
TextWeak ==
  [name |-> "TextWeak", stripped_len |-> 124,
   sentences |-> <<
     [text |-> "Margins expanded 8% in 2025 as disclosed by the company.", chars |-> 56, words |-> 10, first_int |-> 8,
       pattern |-> TypeScores(7, 0, 0, 0, 0),
       certainty_high |-> FALSE, has_evidence |-> TRUE, overconfident |-> "", vague |-> FALSE,
       strong_marker |-> TRUE, statement_ref |-> FALSE, moderate_marker |-> FALSE, numeric |-> TRUE, weasel |-> FALSE,
       thesis |-> FALSE, concluding |-> FALSE, counter |-> FALSE,
       has_source |-> FALSE, has_numbers |-> TRUE, has_certainty |-> FALSE, has_prediction |-> FALSE, has_opinion |-> FALSE,
       conditional |-> FALSE, digits |-> TRUE, bullish |-> TRUE, bearish |-> FALSE, contrast |-> FALSE],
     [text |-> "Some investors might sell, but we would buy and watch for the risk.", chars |-> 67, words |-> 13, first_int |-> -1,
       pattern |-> TypeScores(0, 0, 0, 1, 0),
       certainty_high |-> FALSE, has_evidence |-> FALSE, overconfident |-> "", vague |-> TRUE,
       strong_marker |-> FALSE, statement_ref |-> FALSE, moderate_marker |-> FALSE, numeric |-> FALSE, weasel |-> TRUE,
       thesis |-> FALSE, concluding |-> FALSE, counter |-> TRUE,
       has_source |-> FALSE, has_numbers |-> FALSE, has_certainty |-> FALSE, has_prediction |-> FALSE, has_opinion |-> FALSE,
       conditional |-> FALSE, digits |-> FALSE, bullish |-> TRUE, bearish |-> TRUE, contrast |-> TRUE]
   >>,
   numerical_data_count |-> 1, entity_count |-> 2, source_citation_count |-> 1, recent_dates |-> 1,
   stance_count |-> 3, target_count |-> 1, vague_word_count |-> 1, word_count |-> 23,
   risk_count |-> 1, exit_count |-> 0, sizing_count |-> 0,
   action_count |-> 3, entry_count |-> 0, monitor_count |-> 1,
   positive_words |-> 1, negative_words |-> 0, has_risk |-> TRUE, has_downside |-> FALSE, other_counter |-> TRUE]

ThesisPool == {TextEmpty, TextShort, TextScenario1, TextBullish, TextStrong, TextMedium, TextWeak}

-----------------------------------------------------------------------------
(* templates.get_embedding_vote: the embedder is an external function; it   *)
(* either raises or returns one similarity per type (held in hundredths).   *)

EmbedFailure == [ok |-> FALSE]

VoteFactLike ==
  [ok |-> TRUE,
   votes |-> TypeScores(80, 30, 20, 40, 50)]

VoteProjectionLike ==
  [ok |-> TRUE,
   votes |-> TypeScores(20, 60, 30, 70, 10)]

EmbedOutcomes == {EmbedFailure, VoteFactLike, VoteProjectionLike}

-----------------------------------------------------------------------------
(* StrengthAnalyzer._classify_sentences_ml *)

\* max(scores, key=scores.get): first key in insertion order with the maximum
ArgMax(scores) ==
  TypeOrder[CHOOSE k \in 1..5 :
              /\ \A j \in 1..5 : scores[TypeOrder[j]] <= scores[TypeOrder[k]]
              /\ \A j \in 1..(k - 1) : scores[TypeOrder[j]] < scores[TypeOrder[k]]]

SumScores(scores) ==
  scores["FACT"] + scores["OPINION"] + scores["ASSUMPTION"]
    + scores["PROJECTION"] + scores["CONTEXT"]

\* the pattern result as (max_type, max_score, total_score) over denominator 1
PatternResult(s) ==
  [max_type |-> ArgMax(s.pattern),
   max_num |-> s.pattern[ArgMax(s.pattern)],
   total_num |-> SumScores(s.pattern),
   den |-> 1]

\* the length test admitting a sentence of exactly 20 characters
UseEmbeddingsFromLength20(s) ==
  LET r == PatternResult(s)
  IN  /\ \/ r.total_num < 5
         \/ 10 * r.max_num < 7 * Max(r.total_num, 1)
      /\ s.chars >= 20

\* use_embeddings and the length test of line 386; chars is
\* len(sentence.strip())
\* (pattern_max_score / max(pattern_total, 1)) < 0.7  <=>  10 * max < 7 * max(total, 1)
UseEmbeddings(s) ==
  LET r == PatternResult(s)
  IN  /\ \/ r.total_num < 5
         \/ 10 * r.max_num < 7 * Max(r.total_num, 1)
      /\ s.chars > 20

\* combined[t] = 0.6 * pattern[t] + 0.4 * (vote[t] / embed_max * 5)
\*             = (3 * pattern[t] * embed_max + 10 * vote[t]) / (5 * embed_max);
\* the numerators are kept over the common positive denominator 5 * |embed_max|
EmbedMax(e) ==
  LET m == ArgMax(e.votes) IN e.votes[m]

CombinedScores(s, e) ==
  LET sign == IF EmbedMax(e) > 0 THEN 1 ELSE -1
  IN  [t \in SentenceType |->
         sign * (3 * s.pattern[t] * EmbedMax(e) + 10 * e.votes[t])]

\* the except branch leaving the scores of a gated sentence empty
ScoreResultEmptyOnFailure(s, e) ==
  IF UseEmbeddings(s) /\ e.ok /\ EmbedMax(e) # 0
  THEN LET c == CombinedScores(s, e)
       IN  [max_type |-> ArgMax(c),
            max_num |-> c[ArgMax(c)],
            total_num |-> SumScores(c),
            den |-> 5 * (IF EmbedMax(e) > 0 THEN EmbedMax(e) ELSE -EmbedMax(e))]
  ELSE IF UseEmbeddings(s)
    THEN [max_type |-> "CONTEXT", max_num |-> 0, total_num |-> 0, den |-> 1]
  ELSE PatternResult(s)

\* lines 386-412: the scores the confidence is computed from.  The embedding
\* call raising, or embed_max = 0 (ZeroDivisionError), falls back to the
\* pattern result.
ScoreResult(s, e) ==
  IF UseEmbeddings(s) /\ e.ok /\ EmbedMax(e) # 0
  THEN LET c == CombinedScores(s, e)
       IN  [max_type |-> ArgMax(c),
            max_num |-> c[ArgMax(c)],
            total_num |-> SumScores(c),
            den |-> 5 * (IF EmbedMax(e) > 0 THEN EmbedMax(e) ELSE -EmbedMax(e))]
  ELSE PatternResult(s)

\* lines 415-420
FinalType(r) == IF r.total_num = 0 THEN "CONTEXT" ELSE r.max_type

\* confidence = min(1.0, max_score / max(total_score, 1) * 1.2)
Confidence(r) ==
  IF r.total_num = 0 THEN <<1, 2>>
  ELSE LET d == IF r.total_num > r.den THEN r.total_num ELSE r.den
       IN  IF 6 * r.max_num >= 5 * d THEN <<1, 1>> ELSE <<6 * r.max_num, 5 * d>>

\* lines 429-443
CertaintyIssue == [kind |-> "High certainty language without supporting evidence", detail |-> ""]

OverconfidentIssue(s) == [kind |-> "Overconfident claim", detail |-> s.overconfident]

VagueIssue == [kind |-> "Vague quantifier used", detail |-> ""]

ClassifierIssues(s) ==
  (IF s.certainty_high /\ ~s.has_evidence THEN <<CertaintyIssue>> ELSE << >>)
    \o (IF s.overconfident # "" THEN <<OverconfidentIssue(s)>> ELSE << >>)
    \o (IF s.vague THEN <<VagueIssue>> ELSE << >>)

\* lines 446-456
Support(s, max_type) ==
  IF s.strong_marker THEN "SUPPORTED"
  ELSE IF s.statement_ref THEN "SUPPORTED"
  ELSE IF s.moderate_marker THEN "SUPPORTED"
  ELSE IF s.numeric THEN "PARTIAL"
  ELSE IF s.weasel /\ max_type # "PROJECTION" THEN "UNSUPPORTED"
  ELSE "PARTIAL"

\* the role with the FACT test ahead of the FOUNDATION test
RoleEvidenceFirst(s, max_type, i, n) ==
  IF max_type = "FACT" THEN "Evidence"
  ELSE IF i = 0 \/ s.thesis THEN "Foundation"
  ELSE IF i = n - 1 \/ s.concluding THEN "Conclusion"
  ELSE "Bridge"

\* lines 459-465; i is the 0-based position, n = len(sentences)
Role(s, max_type, i, n) ==
  IF i = 0 \/ s.thesis THEN "Foundation"
  ELSE IF max_type = "FACT" THEN "Evidence"
  ELSE IF i = n - 1 \/ s.concluding THEN "Conclusion"
  ELSE "Bridge"

\* the record numbered by the 0-based loop variable
SentenceAnalysisZeroBased(s, e, i, n) ==
  LET r == ScoreResult(s, e)
      t == FinalType(r)
  IN  [index |-> i,
       text |-> s.text,
       sentence_type |-> t,
       support_level |-> Support(s, t),
       role |-> Role(s, t, i, n),
       confidence |-> Confidence(r),
       issues |-> ClassifierIssues(s)]

\* lines 467-475: the SentenceAnalysis of the sentence at 0-based position i
SentenceAnalysis(s, e, i, n) ==
  LET r == ScoreResult(s, e)
      t == FinalType(r)
  IN  [index |-> i + 1,
       text |-> s.text,
       sentence_type |-> t,
       support_level |-> Support(s, t),
       role |-> Role(s, t, i, n),
       confidence |-> Confidence(r),
       issues |-> ClassifierIssues(s)]

\* line 479
AmbiguityThreshold == <<11, 20>>

\* the embedding trigger ratio of line 384 used as the ambiguity threshold
IsAmbiguousBelowTriggerRatio(a) == RatLess(a.confidence, <<7, 10>>)

IsAmbiguous(a) == RatLess(a.confidence, AmbiguityThreshold)

\* line 480: ambiguous.append(i)
AmbiguousEntry(i) == i

-----------------------------------------------------------------------------
(* The quantitative scorers, in half points *)

\* _score_evidence_quality: the breakdown before rounding
EvidenceBreakdown(f) ==
  [verifiable_data_points |-> Min(Pts(10), 3 * f.numerical_data_count + f.entity_count),
   source_attribution |-> Min(Pts(5), 3 * f.source_citation_count),
   recency |-> Min(Pts(5), 3 * f.recent_dates)]

ScoreEvidenceQuality(f) ==
  LET b == EvidenceBreakdown(f)
  IN  Min(Pts(20), b.verifiable_data_points + b.source_attribution + b.recency)

\* vague_ratio * 2 = 2 * vague_word_count / max(word_count / 100, 1), in half
\* points; for word_count > 100 the texts used make the division exact
VaguePenalty(f) ==
  IF f.word_count <= 100 THEN Pts(2 * f.vague_word_count)
  ELSE (Pts(2 * f.vague_word_count) * 100) \div f.word_count

ClarityBreakdownUnclamped(f) ==
  [clear_position |-> Min(Pts(5), Pts(2 * f.stance_count)),
   specific_targets |-> Min(Pts(10), 3 * f.target_count),
   unambiguous_language |-> Pts(5) - VaguePenalty(f)]

\* _score_clarity
ClarityBreakdown(f) ==
  [clear_position |-> Min(Pts(5), Pts(2 * f.stance_count)),
   specific_targets |-> Min(Pts(10), 3 * f.target_count),
   unambiguous_language |-> Max(0, Pts(5) - VaguePenalty(f))]

ScoreClarity(f) ==
  LET b == ClarityBreakdown(f)
  IN  Min(Pts(20), b.clear_position + b.specific_targets + b.unambiguous_language)

\* _score_risk_awareness
RiskBreakdown(f) ==
  [downside_scenarios |-> Min(Pts(10), Pts(2 * f.risk_count)),
   exit_criteria |-> Min(Pts(5), Pts(2 * f.exit_count)),
   position_sizing |-> Min(Pts(5), Pts(2 * f.sizing_count))]

ScoreRiskAwareness(f) ==
  LET b == RiskBreakdown(f)
  IN  Min(Pts(20), b.downside_scenarios + b.exit_criteria + b.position_sizing)

\* _score_actionability
ActionBreakdown(f) ==
  [executable_trades |-> Min(Pts(10), Pts(2 * f.action_count)),
   entry_exit_signals |-> Min(Pts(5), Pts(2 * f.entry_count)),
   monitoring_plan |-> Min(Pts(5), Pts(2 * f.monitor_count))]

ScoreActionability(f) ==
  LET b == ActionBreakdown(f)
  IN  Min(Pts(20), b.executable_trades + b.entry_exit_signals + b.monitoring_plan)
-----------------------------------------------------------------------------
(* The LLM adjudication step: StrengthAnalyzer._llm_analyze *)

MaxCorrections == 2

MaxFallacies == 1

\* the fallback of lines 661-671
FallbackResult ==
  [logical_coherence |->
     [argument_flow |-> Pts(6), cause_effect_validity |-> Pts(3),
      absence_of_fallacies |-> Pts(3), total |-> Pts(12),
      notes |-> <<"LLM analysis failed">>],
   classification_corrections |-> << >>,
   fallacies_detected |-> << >>,
   synthesis |->
     [top_strengths |-> <<"Unable to analyze - LLM error">>,
      top_weaknesses |-> <<"Unable to analyze - LLM error">>,
      missing_elements |-> << >>,
      improvement_priorities |-> << >>]]

\* what a parsed response may carry under "logical_coherence": a total inside
\* or outside the range the prompt asks for, or no total at all
CoherencePool ==
  {[total |-> Pts(5)], [total |-> Pts(12)], [total |-> Pts(20)],
   [total |-> Pts(25)], [notes |-> << >>]}

\* entries of "classification_corrections": a valid retyping of sentence 1 and
\* of sentence 2, an invalid type string, an index no text here reaches
CorrectionPool ==
  {[sentence_index |-> 1, ml_type |-> "CONTEXT", correct_type |-> "OPINION", reason |-> "subjective"],
   [sentence_index |-> 2, ml_type |-> "opinion", correct_type |-> "FACT", reason |-> "verifiable"],
   [sentence_index |-> 2, ml_type |-> "FACT", correct_type |-> "speculation", reason |-> "unclear"],
   [sentence_index |-> 2, ml_type |-> "FACT", correct_type |-> "OPINION", reason |-> "judgement"],
   [sentence_index |-> 9, ml_type |-> "FACT", correct_type |-> "PROJECTION", reason |-> "forecast"]}

\* str.upper() on the type strings above
Upper(str) ==
  CASE str = "opinion" -> "OPINION"
    [] str = "speculation" -> "SPECULATION"
    [] OTHER -> str

\* a "sentence_reference" string: its text, the first run of digits in it
\* (-1: none) and its length
IndexRef == [text |-> "2", first_int |-> 2, chars |-> 1]

FarRef == [text |-> "sentence 12", first_int |-> 12, chars |-> 11]

QuoteRef(s) == [text |-> s.text, first_int |-> s.first_int, chars |-> s.chars]

\* entries of "fallacies_detected" for a text with sentences sents: a
\* reference by index, one out of range, a quote of the first sentence
FallacyPool(sents) ==
  {[sentence_reference |-> IndexRef, type |-> "circular reasoning", explanation |-> "restates the claim"],
   [sentence_reference |-> FarRef, type |-> "false causation"]}
    \cup {[sentence_reference |-> QuoteRef(sents[k]), type |-> "cherry-picking",
           explanation |-> "selective data"] : k \in {j \in DOMAIN sents : j = 1}}

SeqsUpTo(S, n) == UNION {[1..k -> S] : k \in 0..n}

\* responses with a value of the wrong type: "logical_coherence" a string,
\* "total" a string, "synthesis" a list, a "sentence_index" that is a string
\* (alone and after a valid correction), an "ml_type" that is a number
IllTypedResults ==
  {[ill_typed |-> {"logical_coherence"}],
   [logical_coherence |-> [ill_typed |-> {"total"}]],
   [ill_typed |-> {"synthesis"}],
   [classification_corrections |->
      <<[correct_type |-> "FACT", ml_type |-> "OPINION", ill_typed |-> {"sentence_index"}]>>],
   [classification_corrections |->
      <<[sentence_index |-> 1, ml_type |-> "CONTEXT", correct_type |-> "OPINION"],
        [correct_type |-> "FACT", ml_type |-> "OPINION", ill_typed |-> {"sentence_index"}]>>],
   [classification_corrections |->
      <<[sentence_index |-> 2, correct_type |-> "FACT", ill_typed |-> {"ml_type"}]>>]}

\* json.loads of a response: any object built from the pools, also the
\* empty object and the ill-typed ones
ParsedResults(sents) ==
  {<< >>}
    \cup IllTypedResults
    \cup {[logical_coherence |-> c,
           classification_corrections |-> cs,
           fallacies_detected |-> fs,
           synthesis |-> [top_strengths |-> <<"Clear numbers">>]] :
            c \in CoherencePool,
            cs \in SeqsUpTo(CorrectionPool, MaxCorrections),
            fs \in SeqsUpTo(FallacyPool(sents), MaxFallacies)}

-----------------------------------------------------------------------------
(* StrengthAnalyzer._apply_corrections *)

\* SentenceType(value): ValueError unless value names a member
ValidType(str) == str \in SentenceType

\* the 1-based sentence_index used as a list position
ApplyCorrectionOffByOne(analyses, corr) ==
  LET idx == Get(corr, "sentence_index", 0)
  IN  IF 0 <= idx /\ idx < Len(analyses)
      THEN LET a == analyses[idx + 1]
               new_type == Get(corr, "correct_type", a.sentence_type)
           IN  IF ValidType(new_type)
               THEN [analyses EXCEPT ![idx + 1] =
                       [a EXCEPT !.sentence_type = new_type, !.confidence = <<19, 20>>]]
               ELSE analyses
      ELSE analyses

\* the confidence assigned before the type is converted
ApplyCorrectionConfidenceFirst(analyses, corr) ==
  LET idx == Get(corr, "sentence_index", 0) - 1
  IN  IF 0 <= idx /\ idx < Len(analyses)
      THEN LET a == analyses[idx + 1]
               new_type == Get(corr, "correct_type", a.sentence_type)
           IN  IF ValidType(new_type)
               THEN [analyses EXCEPT ![idx + 1] =
                       [a EXCEPT !.sentence_type = new_type, !.confidence = <<19, 20>>]]
               ELSE [analyses EXCEPT ![idx + 1] = [a EXCEPT !.confidence = <<19, 20>>]]
      ELSE analyses

\* lines 675-682: one correction; ValueError leaves type and confidence
ApplyCorrection(analyses, corr) ==
  LET idx == Get(corr, "sentence_index", 0) - 1
  IN  IF 0 <= idx /\ idx < Len(analyses)
      THEN LET a == analyses[idx + 1]
               new_type == Get(corr, "correct_type", a.sentence_type)
           IN  IF ValidType(new_type)
               THEN [analyses EXCEPT ![idx + 1] =
                       [a EXCEPT !.sentence_type = new_type, !.confidence = <<19, 20>>]]
               ELSE analyses
      ELSE analyses

RECURSIVE ApplyCorrectionsFrom(_, _, _)
ApplyCorrectionsFrom(analyses, corrections, k) ==
  IF k > Len(corrections) THEN analyses
  ELSE ApplyCorrectionsFrom(ApplyCorrection(analyses, corrections[k]), corrections, k + 1)

ApplyCorrections(analyses, corrections) == ApplyCorrectionsFrom(analyses, corrections, 1)

\* line 676: corr.get("sentence_index", 0) - 1 raises TypeError on a string.
\* The position of the first correction that raises (0: none)
FirstRaisingCorrection(corrections) ==
  IF \E k \in DOMAIN corrections : IllTyped(corrections[k], "sentence_index")
  THEN CHOOSE k \in DOMAIN corrections :
         /\ IllTyped(corrections[k], "sentence_index")
         /\ \A j \in 1..(k - 1) : ~IllTyped(corrections[j], "sentence_index")
  ELSE 0

-----------------------------------------------------------------------------
(* StrengthAnalyzer._apply_fallacies *)

FallbackIssue(explanation) == [kind |-> "Fallback", detail |-> explanation]

FallacyIssue(explanation) == [kind |-> "Fallacy", detail |-> explanation]

InSeq(x, seq) == \E k \in DOMAIN seq : seq[k] = x

\* ref.lower() in a.text.lower() or a.text.lower() in ref.lower(): every
\* reference used here is either the text of a sentence or shares no
\* substring relation with one
QuoteMatches(ref, a) == ref.text = a.text

\* the issue list assigned, not appended to
ApplyFallacyResetting(analyses, fallacy) ==
  LET ref == Get(fallacy, "sentence_reference", [text |-> "", first_int |-> -1, chars |-> 0])
      explanation == Get(fallacy, "explanation", Get(fallacy, "type", "Logical issue"))
      idx == ref.first_int - 1
      byIndex ==
        IF ref.first_int # -1 /\ 0 <= idx /\ idx < Len(analyses)
        THEN [analyses EXCEPT ![idx + 1].issues = <<FallbackIssue(explanation)>>]
        ELSE analyses
  IN  IF ref.chars > 10
      THEN [k \in DOMAIN byIndex |->
              IF /\ QuoteMatches(ref, byIndex[k])
                 /\ ~InSeq(FallbackIssue(explanation), byIndex[k].issues)
              THEN [byIndex[k] EXCEPT !.issues = Append(@, FallacyIssue(explanation))]
              ELSE byIndex[k]]
      ELSE byIndex

\* lines 686-706: one fallacy
ApplyFallacy(analyses, fallacy) ==
  LET ref == Get(fallacy, "sentence_reference", [text |-> "", first_int |-> -1, chars |-> 0])
      explanation == Get(fallacy, "explanation", Get(fallacy, "type", "Logical issue"))
      idx == ref.first_int - 1
      byIndex ==
        IF ref.first_int # -1 /\ 0 <= idx /\ idx < Len(analyses)
        THEN [analyses EXCEPT ![idx + 1].issues = Append(@, FallbackIssue(explanation))]
        ELSE analyses
  IN  IF ref.chars > 10
      THEN [k \in DOMAIN byIndex |->
              IF /\ QuoteMatches(ref, byIndex[k])
                 /\ ~InSeq(FallbackIssue(explanation), byIndex[k].issues)
              THEN [byIndex[k] EXCEPT !.issues = Append(@, FallacyIssue(explanation))]
              ELSE byIndex[k]]
      ELSE byIndex

RECURSIVE ApplyFallaciesFrom(_, _, _)
ApplyFallaciesFrom(analyses, fallacies, k) ==
  IF k > Len(fallacies) THEN analyses
  ELSE ApplyFallaciesFrom(ApplyFallacy(analyses, fallacies[k]), fallacies, k + 1)

ApplyFallacies(analyses, fallacies) == ApplyFallaciesFrom(analyses, fallacies, 1)

-----------------------------------------------------------------------------
(* StrengthAnalyzer._build_audit_table *)

AuditLimit == 15

AuditEntry(a, classified_as, should_be, issue) ==
  [sentence_index |-> a.index, statement |-> a.text,
   classified_as |-> classified_as, should_be |-> should_be, issue |-> issue]

\* lines 766-869: the entry the pattern scan emits for sentence a with text
\* features s (<< >>: none)
ScanEntry(a, s) ==
  IF s.words < 5 THEN << >>
  ELSE IF a.sentence_type = "CONTEXT" THEN << >>
  ELSE IF a.sentence_type = "FACT" /\ s.has_numbers /\ ~s.has_source
    THEN <<AuditEntry(a, "FACT", "FACT", "Contains numerical claim without source citation")>>
  ELSE IF a.sentence_type = "FACT" /\ s.has_certainty /\ ~s.has_source
    THEN <<AuditEntry(a, "FACT", "ASSUMPTION", "Stated as certainty without evidence")>>
  ELSE IF a.sentence_type = "FACT" /\ s.has_prediction
    THEN <<AuditEntry(a, "FACT", "PROJECTION", "Future prediction presented as established fact")>>
  ELSE IF a.sentence_type = "FACT" /\ s.has_opinion /\ ~s.has_source /\ ~s.has_numbers
    THEN <<AuditEntry(a, "FACT", "OPINION", "Uses subjective term without objective evidence")>>
  ELSE IF a.sentence_type = "ASSUMPTION" /\ s.has_certainty
    THEN <<AuditEntry(a, "ASSUMPTION", "ASSUMPTION", "Assumption stated with high certainty - should include qualifier")>>
  ELSE IF a.sentence_type = "FACT" /\ a.support_level = "UNSUPPORTED"
    THEN <<AuditEntry(a, "FACT", "FACT", "Factual claim marked unsupported - needs verification or source")>>
  ELSE << >>

RECURSIVE ScanFrom(_, _, _)
ScanFrom(analyses, sents, k) ==
  IF k > Len(analyses) THEN << >>
  ELSE ScanEntry(analyses[k], sents[k]) \o ScanFrom(analyses, sents, k + 1)

\* lines 872-886: the entry an LLM correction adds
CorrectionEntry(analyses, processed_indices, corr) ==
  LET idx == Get(corr, "sentence_index", 0)
      original_type == Upper(Get(corr, "ml_type", ""))
      correct_type == Upper(Get(corr, "correct_type", ""))
  IN  IF /\ idx \notin processed_indices
         /\ 0 < idx /\ idx <= Len(analyses)
         /\ original_type # "" /\ correct_type # ""
      THEN <<[sentence_index |-> idx, statement |-> analyses[idx].text,
              classified_as |-> original_type, should_be |-> correct_type,
              issue |-> Get(corr, "reason", "Classification reviewed by LLM")]>>
      ELSE << >>

RECURSIVE CorrectionEntriesFrom(_, _, _, _)
CorrectionEntriesFrom(analyses, processed_indices, corrections, k) ==
  IF k > Len(corrections) THEN << >>
  ELSE CorrectionEntry(analyses, processed_indices, corrections[k])
         \o CorrectionEntriesFrom(analyses, processed_indices, corrections, k + 1)

\* list.sort(key=sentence_index): stable
RECURSIVE InsertByIndex(_, _)
InsertByIndex(sorted, entry) ==
  IF sorted = << >> THEN <<entry>>
  ELSE IF sorted[Len(sorted)].sentence_index <= entry.sentence_index
    THEN Append(sorted, entry)
  ELSE Append(InsertByIndex(SubSeq(sorted, 1, Len(sorted) - 1), entry), sorted[Len(sorted)])

RECURSIVE SortFrom(_, _, _)
SortFrom(sorted, entries, k) ==
  IF k > Len(entries) THEN sorted
  ELSE SortFrom(InsertByIndex(sorted, entries[k]), entries, k + 1)

SortBySentenceIndex(entries) == SortFrom(<< >>, entries, 1)

\* a slice that keeps one entry too many
TruncateInclusive(entries) == SubSeq(entries, 1, Min(Len(entries), AuditLimit + 1))

\* audit_entries[:15]
Truncate(entries) == SubSeq(entries, 1, Min(Len(entries), AuditLimit))

\* audit_entries before the sort
AuditEntries(analyses, sents, llm_corrections) ==
  LET scanned == ScanFrom(analyses, sents, 1)
      processed_indices == {scanned[k].sentence_index : k \in DOMAIN scanned}
  IN  scanned \o CorrectionEntriesFrom(analyses, processed_indices, llm_corrections, 1)

BuildAuditTable(analyses, sents, llm_corrections) ==
  Truncate(SortBySentenceIndex(AuditEntries(analyses, sents, llm_corrections)))

\* lines 875-876: .upper() raises AttributeError on a value that is not a
\* string, for a correction that passes the test of line 874
AuditRaises(analyses, sents, llm_corrections) ==
  LET scanned == ScanFrom(analyses, sents, 1)
      processed_indices == {scanned[k].sentence_index : k \in DOMAIN scanned}
  IN  \E k \in DOMAIN llm_corrections :
        LET idx == Get(llm_corrections[k], "sentence_index", 0)
        IN  /\ idx \notin processed_indices
            /\ 0 < idx /\ idx <= Len(analyses)
            /\ IllTyped(llm_corrections[k], "ml_type") \/ IllTyped(llm_corrections[k], "correct_type")

-----------------------------------------------------------------------------
(* StrengthAnalyzer._build_logic_chain *)

LogicChainNode(a, claim_type, has_evidence, evidence_sentences) ==
  [claim |-> a.text, claim_type |-> claim_type, has_evidence |-> has_evidence,
   evidence_sentences |-> evidence_sentences, confidence |-> a.confidence]

\* the score with the bonus for a FACT at every position
MainClaimScoreFactAnywhere(a, s, i) ==
  (IF s.thesis THEN 10 ELSE 0)
    + (IF a.role = "Foundation" THEN 5 ELSE 0)
    + (IF a.sentence_type = "FACT" THEN 2 ELSE 0)

\* lines 908-917: the score of the sentence at 0-based position i
MainClaimScore(a, s, i) ==
  (IF s.thesis THEN 10 ELSE 0)
    + (IF a.role = "Foundation" THEN 5 ELSE 0)
    + (IF a.sentence_type = "FACT" /\ i < 5 THEN 2 ELSE 0)

\* lines 901-921: main_claim_idx and best_score once the loop has passed
\* the positions from i on; sentences under 20 characters are skipped
RECURSIVE MainClaimFrom(_, _, _, _)
MainClaimFrom(analyses, sents, i, best) ==
  IF i >= Len(analyses) THEN best
  ELSE IF sents[i + 1].chars >= 20 /\ MainClaimScore(analyses[i + 1], sents[i + 1], i) > best.best_score
    THEN MainClaimFrom(analyses, sents, i + 1,
                       [main_claim_idx |-> i,
                        best_score |-> MainClaimScore(analyses[i + 1], sents[i + 1], i)])
  ELSE MainClaimFrom(analyses, sents, i + 1, best)

\* lines 925: the indices of the FACT sentences from position k on
RECURSIVE EvidenceRefsFrom(_, _)
EvidenceRefsFrom(analyses, k) ==
  IF k > Len(analyses) THEN << >>
  ELSE (IF analyses[k].sentence_type = "FACT" THEN <<analyses[k].index>> ELSE << >>)
         \o EvidenceRefsFrom(analyses, k + 1)

\* a main claim only when the loop selected a sentence
MainClaimNodeIfSelected(analyses, sents) ==
  LET best == MainClaimFrom(analyses, sents, 0, [main_claim_idx |-> 0, best_score |-> -1])
      evidence_refs == EvidenceRefsFrom(analyses, 1)
  IN  IF best.best_score >= 0
      THEN <<LogicChainNode(analyses[best.main_claim_idx + 1], "main_claim", evidence_refs # << >>,
                            SubSeq(evidence_refs, 1, Min(5, Len(evidence_refs))))>>
      ELSE << >>

\* lines 923-932
MainClaimNode(analyses, sents) ==
  LET best == MainClaimFrom(analyses, sents, 0, [main_claim_idx |-> 0, best_score |-> -1])
      evidence_refs == EvidenceRefsFrom(analyses, 1)
  IN  IF analyses # << >>
      THEN <<LogicChainNode(analyses[best.main_claim_idx + 1], "main_claim", evidence_refs # << >>,
                            SubSeq(evidence_refs, 1, Min(5, Len(evidence_refs))))>>
      ELSE << >>

\* a node for every sentence with role EVIDENCE, whatever its type
RECURSIVE SupportingNodesByRoleFrom(_, _)
SupportingNodesByRoleFrom(analyses, k) ==
  IF k > Len(analyses) THEN << >>
  ELSE (IF analyses[k].role = "Evidence"
        THEN <<LogicChainNode(analyses[k], "supporting_evidence", TRUE, <<analyses[k].index>>)>>
        ELSE << >>)
         \o SupportingNodesByRoleFrom(analyses, k + 1)

\* lines 935-943
RECURSIVE SupportingNodesFrom(_, _)
SupportingNodesFrom(analyses, k) ==
  IF k > Len(analyses) THEN << >>
  ELSE (IF analyses[k].role = "Evidence" /\ analyses[k].sentence_type = "FACT"
        THEN <<LogicChainNode(analyses[k], "supporting_evidence", TRUE, <<analyses[k].index>>)>>
        ELSE << >>)
         \o SupportingNodesFrom(analyses, k + 1)

\* lines 946-956: a node for the first sentence with a counter pattern
CounterNode(analyses, sents) ==
  IF \E k \in DOMAIN analyses : sents[k].counter
  THEN LET k == CHOOSE k \in DOMAIN analyses :
                  sents[k].counter /\ \A j \in 1..(k - 1) : ~sents[j].counter
       IN  <<LogicChainNode(analyses[k], "counter_argument",
                            analyses[k].support_level = "SUPPORTED", <<analyses[k].index>>)>>
  ELSE << >>

BuildLogicChain(analyses, sents) ==
  MainClaimNode(analyses, sents) \o SupportingNodesFrom(analyses, 1) \o CounterNode(analyses, sents)

-----------------------------------------------------------------------------
(* StrengthAnalyzer._detect_bias *)

\* the sentiment word lists of lines 1106-1107
NumPositiveWords == 9

NumNegativeWords == 9

\* "risk" and "downside" are negative words and counter patterns at once
NegCount(t) ==
  t.negative_words + (IF t.has_risk THEN 1 ELSE 0) + (IF t.has_downside THEN 1 ELSE 0)

\* line 1118
CounterPresent(t) == t.other_counter \/ t.has_risk \/ t.has_downside

\* the signed difference
SignedDifference(x) == x

\* line 1121: abs
Abs(x) == IF x >= 0 THEN x ELSE -x

\* the factor without the counter-argument discount
DampingAbsent(counter_present) == <<1, 1>>

\* the factor of line 1122 as a fraction
Damping(counter_present) == IF counter_present THEN <<1, 2>> ELSE <<1, 1>>

\* line 1124: bias_score > 0.6
BiasThreshold == <<3, 5>>

DetectBias(t) ==
  LET pos_count == t.positive_words
      neg_count == NegCount(t)
      total == IF pos_count + neg_count > 0 THEN pos_count + neg_count ELSE 1
      counter_present == CounterPresent(t)
      \* imbalance = abs(positive_ratio - negative_ratio) / 100
      imbalance == <<Abs(pos_count - neg_count), total>>
      bias_score == <<imbalance[1] * Damping(counter_present)[1],
                      imbalance[2] * Damping(counter_present)[2]>>
  IN  [is_biased |-> RatLess(BiasThreshold, bias_score) /\ ~counter_present,
       bias_score |-> bias_score,
       positive_ratio |-> <<pos_count * 100, total>>,
       negative_ratio |-> <<neg_count * 100, total>>,
       counter_arguments_present |-> counter_present]

-----------------------------------------------------------------------------
(* StrengthReport *)

\* the thresholds taken as strict bounds
CalculateGradeStrict(score) ==
  IF score > Pts(90) THEN "A"
  ELSE IF score > Pts(75) THEN "B"
  ELSE IF score > Pts(60) THEN "C"
  ELSE IF score > Pts(45) THEN "D"
  ELSE "F"

\* StrengthReport.calculate_grade, on half points
CalculateGrade(score) ==
  IF score >= Pts(90) THEN "A"
  ELSE IF score >= Pts(75) THEN "B"
  ELSE IF score >= Pts(60) THEN "C"
  ELSE IF score >= Pts(45) THEN "D"
  ELSE "F"

\* _count_sentence_types(...).get(t, 0)
TypeCount(analyses, t) == Cardinality({k \in DOMAIN analyses : analyses[k].sentence_type = t})

\* partial support counted as support
SupportedCountLoose(analyses) ==
  Cardinality({k \in DOMAIN analyses : analyses[k].support_level # "UNSUPPORTED"})

\* line 198
SupportedCount(analyses) ==
  Cardinality({k \in DOMAIN analyses : analyses[k].support_level = "SUPPORTED"})

\* line 223
SupportedPercentage(analyses) ==
  IF Len(analyses) > 0 THEN <<SupportedCount(analyses) * 100, Len(analyses)>> ELSE <<0, 1>>

\* lines 146-155: the score of the logical coherence component
CoherenceScore(result) ==
  LET logical_coherence == Get(result, "logical_coherence", << >>)
  IN  IF IllTyped(logical_coherence, "total") THEN "not a number"
      ELSE Get(logical_coherence, "total", Pts(12))

\* the sum without the adjudicated component
OverallQuantitativeOnly(evidence, coherence, clarity, risk, action) ==
  evidence + clarity + risk + action

\* lines 201-207
Overall(evidence, coherence, clarity, risk, action) ==
  evidence + coherence + clarity + risk + action

\* line 201: a float plus a string raises TypeError; lines 224-227: .get on
\* a value that is not a dict raises AttributeError
AssembleRaises(result) ==
  \/ IllTyped(Get(result, "logical_coherence", << >>), "total")
  \/ IllTyped(result, "synthesis")

\* lines 209-234
BuildReport(evidence, coherence, clarity, risk, action, analyses, result, table, chain, weakness, consistency, bias) ==
  [overall_score |-> Overall(evidence, coherence, clarity, risk, action),
   grade |-> CalculateGrade(Overall(evidence, coherence, clarity, risk, action)),
   evidence_quality |-> evidence,
   logical_coherence |-> coherence,
   clarity |-> clarity,
   risk_awareness |-> risk,
   actionability |-> action,
   sentence_analyses |-> analyses,
   fact_count |-> TypeCount(analyses, "FACT"),
   assumption_count |-> TypeCount(analyses, "ASSUMPTION"),
   opinion_count |-> TypeCount(analyses, "OPINION"),
   projection_count |-> TypeCount(analyses, "PROJECTION"),
   supported_percentage |-> SupportedPercentage(analyses),
   top_strengths |-> Get(Get(result, "synthesis", << >>), "top_strengths", << >>),
   audit_table |-> table,
   logic_chain |-> chain,
   weakness_report |-> weakness,
   consistency_issues |-> consistency,
   bias_analysis |-> bias]


-----------------------------------------------------------------------------
(* _check_consistency and _build_weakness_report *)

RECURSIVE BullishIndicesFrom(_, _, _)
BullishIndicesFrom(list, sents, k) ==
  IF k > Len(list) THEN << >>
  ELSE (IF sents[k].bullish THEN <<list[k].index>> ELSE << >>)
         \o BullishIndicesFrom(list, sents, k + 1)

RECURSIVE BearishIndicesFrom(_, _, _)
BearishIndicesFrom(list, sents, k) ==
  IF k > Len(list) THEN << >>
  ELSE (IF sents[k].bearish THEN <<list[k].index>> ELSE << >>)
         \o BearishIndicesFrom(list, sents, k + 1)

HasContrastInStanceSentences(sents) ==
  \E k \in DOMAIN sents : sents[k].contrast /\ (sents[k].bullish \/ sents[k].bearish)

HasContrast(sents) == \E k \in DOMAIN sents : sents[k].contrast

ConsistencyIssue(a, b) ==
  [sentence_a_index |-> a, sentence_b_index |-> b, issue_type |-> "conflicting_stance"]

CheckConsistency(list, sents) ==
  LET bullish_indices == BullishIndicesFrom(list, sents, 1)
      bearish_indices == BearishIndicesFrom(list, sents, 1)
  IN  IF bullish_indices # << >> /\ bearish_indices # << >> /\ ~HasContrast(sents)
      THEN <<ConsistencyIssue(bullish_indices[1], bearish_indices[1])>>
      ELSE << >>

\* the entries of the weakness report that depend on the sentence types.
\* lines 992-995: FACT and PROJECTION sentences without a digit that are
\* UNSUPPORTED
RECURSIVE UnquantifiedClaimsFrom(_, _, _)
UnquantifiedClaimsFrom(list, sents, k) ==
  IF k > Len(list) THEN << >>
  ELSE (IF /\ list[k].sentence_type \in {"FACT", "PROJECTION"}
           /\ ~sents[k].digits
           /\ list[k].support_level = "UNSUPPORTED"
        THEN <<list[k].index>> ELSE << >>)
         \o UnquantifiedClaimsFrom(list, sents, k + 1)

\* lines 1014-1016: PROJECTION sentences without "if"
RECURSIVE UnstatedAssumptionsFrom(_, _, _)
UnstatedAssumptionsFrom(list, sents, k) ==
  IF k > Len(list) THEN << >>
  ELSE (IF list[k].sentence_type = "PROJECTION" /\ ~sents[k].conditional
        THEN <<list[k].index>> ELSE << >>)
         \o UnstatedAssumptionsFrom(list, sents, k + 1)

BuildWeaknessReport(list, sents) ==
  [unquantified_claims |-> UnquantifiedClaimsFrom(list, sents, 1),
   unstated_assumptions |-> UnstatedAssumptionsFrom(list, sents, 1)]
-----------------------------------------------------------------------------
(* One analysis: the endpoint analyze_thesis of main.py, or a caller of     *)
(* StrengthAnalyzer.analyze, followed through the stages of analyze.        *)

VARIABLES
  pc,                \* where the analysis stands
  entry,             \* "endpoint": analyze_thesis, "direct": a caller of analyze
  thesis_text,       \* name of the text of ThesisPool under analysis
  analyzer_invoked,  \* StrengthAnalyzer.analyze was called
  analyses,          \* sentence_analyses
  ambiguous,         \* ambiguous_indices
  evidence_score, clarity_score, risk_score, action_score, coherence_score,
  llm_outcome,       \* how _llm_analyze ended
  llm_result,
  audit_table,
  bias_analysis,
  report,            \* the StrengthReport analyze returned
  response,          \* HTTP status the endpoint answered with (0: none)
  bias_input,        \* the text handed to _detect_bias when it is called on its own
  embedder,          \* a deterministic embedder: its answer for each sentence of the text
  templates_loaded,  \* templates.py: _template_embeddings is cached
  first_run,         \* what the classifier returned the first time it ran on the text
  stance_input,      \* the sentences handed to _check_consistency when it is called on its own
  consistency_issues, \* what _check_consistency returned
  score_input,       \* the counts handed to a quantitative scorer when it is called on its own
  component,         \* the ComponentScore that scorer returned
  logic_chain,
  weakness_report,   \* the lists of the WeaknessReport that are built from the sentence types
  template_embeddings, \* templates.py: the global _template_embeddings
  callers,           \* the concurrent callers of get_template_embeddings
  gate_input,        \* the sentence handed to one iteration of the classifier loop on its own
  gate_result,       \* whether that iteration called get_embedding_vote, and what it decided
  chain_input        \* the sentences handed to _build_logic_chain when it is called on its own

vars ==
  <<pc, entry, thesis_text, analyzer_invoked, analyses, ambiguous,
    evidence_score, clarity_score, risk_score, action_score, coherence_score,
    llm_outcome, llm_result, audit_table, bias_analysis, report, response, bias_input,
    embedder, templates_loaded, first_run,
    stance_input, consistency_issues, score_input, component,
    logic_chain, weakness_report, template_embeddings, callers,
    gate_input, gate_result, chain_input>>

inputVars == <<thesis_text, bias_input>>

derivedVars == <<audit_table, bias_analysis>>

scoreVars == <<evidence_score, clarity_score, risk_score, action_score>>

runVars == <<embedder, templates_loaded, first_run>>

\* the state of the operations that are also followed on their own, and
\* the derived analyses of lines 177-185
sideVars == <<stance_input, consistency_issues, score_input, component,
              logic_chain, weakness_report, template_embeddings, callers,
              gate_input, gate_result, chain_input>>

SideInit ==
  /\ stance_input = << >>
  /\ consistency_issues = << >>
  /\ score_input = << >>
  /\ component = << >>
  /\ logic_chain = << >>
  /\ weakness_report = << >>
  /\ template_embeddings = [set |-> FALSE, table |-> << >>]
  /\ callers = << >>
  /\ gate_input = << >>
  /\ gate_result = << >>
  /\ chain_input = << >>

Thesis == CHOOSE d \in ThesisPool : d.name = thesis_text

\* sentences: the segmenter's output for the text
Sentences == Thesis.sentences

\* the texts uploaded to the endpoint
UploadPool == {TextEmpty, TextShort, TextScenario1, TextWeak}

Init ==
  /\ pc = "idle"
  /\ entry = "none"
  /\ thesis_text = "none"
  /\ analyzer_invoked = FALSE
  /\ analyses = << >>
  /\ ambiguous = << >>
  /\ evidence_score = 0
  /\ clarity_score = 0
  /\ risk_score = 0
  /\ action_score = 0
  /\ coherence_score = 0
  /\ llm_outcome = "none"
  /\ llm_result = << >>
  /\ audit_table = << >>
  /\ bias_analysis = << >>
  /\ report = << >>
  /\ response = 0
  /\ bias_input = << >>
  /\ embedder = << >>
  /\ templates_loaded = FALSE
  /\ first_run = << >>
  /\ SideInit

\* main.py 96-98: except Exception as e: raise HTTPException(status_code=500);
\* HTTPException is itself an Exception, so one raised inside the try block is
\* caught here as well
ExceptClause(raised) == 500

\* main.py 85: not text or len(text.strip()) < 50
TooShort(d) == d.stripped_len < 50

\* main.py 80-89: the text fails validation; HTTPException(400) is raised
\* inside the try block
AnalyzeThesisReject(d) ==
  /\ pc = "idle"
  /\ TooShort(d)
  /\ entry' = "endpoint"
  /\ thesis_text' = d.name
  /\ UNCHANGED bias_input
  /\ response' = ExceptClause(400)
  /\ pc' = "done"
  /\ UNCHANGED <<analyzer_invoked, analyses, ambiguous, scoreVars, coherence_score,
                 llm_outcome, llm_result, derivedVars, report>>
  /\ UNCHANGED runVars
  /\ UNCHANGED sideVars

\* main.py 91-92: the analyzer is constructed and analyze is called
AnalyzeThesisAccept(d) ==
  /\ pc = "idle"
  /\ ~TooShort(d)
  /\ entry' = "endpoint"
  /\ thesis_text' = d.name
  /\ UNCHANGED bias_input
  /\ analyzer_invoked' = TRUE
  /\ pc' = "classify"
  /\ UNCHANGED <<analyses, ambiguous, scoreVars, coherence_score,
                 llm_outcome, llm_result, derivedVars, report, response>>
  /\ UNCHANGED runVars
  /\ UNCHANGED sideVars

\* a caller other than the endpoint calls StrengthAnalyzer.analyze(text)
DirectCall(d) ==
  /\ pc = "idle"
  /\ entry' = "direct"
  /\ thesis_text' = d.name
  /\ UNCHANGED bias_input
  /\ analyzer_invoked' = TRUE
  /\ pc' = "classify"
  /\ UNCHANGED <<analyses, ambiguous, scoreVars, coherence_score,
                 llm_outcome, llm_result, derivedVars, report, response>>
  /\ UNCHANGED runVars
  /\ UNCHANGED sideVars

\* a variant of analyze in which the fallacies are applied after the derived
\* analyses were built
StageAfterFallaciesLast(stage) ==
  CASE stage = "classify" -> "llm"
    [] stage = "llm" -> "corrections"
    [] stage = "corrections" -> "derive"
    [] stage = "derive" -> "fallacies"
    [] stage = "fallacies" -> "assemble"
    [] stage = "assemble" -> "returned"

\* analyzer.py 125-240: the statements of analyze in order.  "classify"
\* ends with the four scorers, "llm" with the coherence score
StageAfter(stage) ==
  CASE stage = "classify" -> "llm"
    [] stage = "llm" -> "corrections"
    [] stage = "corrections" -> "fallacies"
    [] stage = "fallacies" -> "derive"
    [] stage = "derive" -> "assemble"
    [] stage = "assemble" -> "returned"

\* analyzer.py 320-480: one iteration of the loop of _classify_sentences_ml,
\* for the sentence at 0-based position i, with e the embedder's answer
ClassifySentence(e) ==
  /\ pc = "classify"
  /\ Len(analyses) < Len(Sentences)
  /\ LET i == Len(analyses)
         s == Sentences[i + 1]
         a == SentenceAnalysis(s, e, i, Len(Sentences))
     IN  /\ UseEmbeddings(s) \/ e = EmbedFailure
         /\ analyses' = Append(analyses, a)
         /\ ambiguous' = IF IsAmbiguous(a) THEN Append(ambiguous, AmbiguousEntry(i))
                         ELSE ambiguous
  /\ UNCHANGED <<pc, entry, inputVars, analyzer_invoked, scoreVars, coherence_score,
                 llm_outcome, llm_result, derivedVars, report, response>>
  /\ templates_loaded' = (templates_loaded \/ (UseEmbeddings(Sentences[Len(analyses) + 1]) /\ e.ok))
  /\ UNCHANGED <<embedder, first_run>>
  /\ UNCHANGED sideVars

\* analyzer.py 131-134: the four quantitative scores, once the classifier
\* has returned
QuantitativeScoring ==
  /\ pc = "classify"
  /\ Len(analyses) = Len(Sentences)
  /\ evidence_score' = ScoreEvidenceQuality(Thesis)
  /\ clarity_score' = ScoreClarity(Thesis)
  /\ risk_score' = ScoreRiskAwareness(Thesis)
  /\ action_score' = ScoreActionability(Thesis)
  /\ pc' = StageAfter(pc)
  /\ UNCHANGED <<entry, inputVars, analyzer_invoked, analyses, ambiguous, coherence_score,
                 llm_outcome, llm_result, derivedVars, report, response>>
  /\ UNCHANGED runVars
  /\ UNCHANGED sideVars

\* analyzer.py 623: get_openai_client() is called before the try block; when
\* the client cannot be built (no API key, package missing) the exception
\* leaves _llm_analyze and analyze
LLMClientUnavailable ==
  /\ pc = "llm"
  /\ llm_outcome' = "client_unavailable"
  /\ pc' = "raised"
  /\ UNCHANGED <<entry, inputVars, analyzer_invoked, analyses, ambiguous, scoreVars,
                 coherence_score, llm_result, derivedVars, report, response>>
  /\ UNCHANGED runVars
  /\ UNCHANGED sideVars

\* analyzer.py 642-671 and 146-155: the call or json.loads raises and the
\* fallback is returned
LLMError ==
  /\ pc = "llm"
  /\ llm_outcome' = "error"
  /\ llm_result' = FallbackResult
  /\ coherence_score' = CoherenceScore(FallbackResult)
  /\ pc' = StageAfter(pc)
  /\ UNCHANGED <<entry, inputVars, analyzer_invoked, analyses, ambiguous, scoreVars,
                 derivedVars, report, response>>
  /\ UNCHANGED runVars
  /\ UNCHANGED sideVars

\* analyzer.py 642-656 and 146-155: the response parses; line 148 raises
\* AttributeError when "logical_coherence" is not a dict
LLMSuccess ==
  /\ pc = "llm"
  /\ \E result \in ParsedResults(Sentences) :
       /\ llm_result' = result
       /\ IF IllTyped(result, "logical_coherence")
          THEN coherence_score' = coherence_score /\ pc' = "raised"
          ELSE coherence_score' = CoherenceScore(result) /\ pc' = StageAfter(pc)
  /\ llm_outcome' = "ok"
  /\ UNCHANGED <<entry, inputVars, analyzer_invoked, analyses, ambiguous, scoreVars,
                 derivedVars, report, response>>
  /\ UNCHANGED runVars
  /\ UNCHANGED sideVars

\* analyzer.py 159-162
Corrections == Get(llm_result, "classification_corrections", << >>)

ApplyCorrectionsStep ==
  /\ pc = "corrections"
  /\ LET raising == FirstRaisingCorrection(Corrections)
     IN  IF raising = 0
         THEN /\ analyses' = ApplyCorrections(analyses, Corrections)
              /\ pc' = StageAfter(pc)
         ELSE /\ analyses' = ApplyCorrections(analyses, SubSeq(Corrections, 1, raising - 1))
              /\ pc' = "raised"
  /\ UNCHANGED <<entry, inputVars, analyzer_invoked, ambiguous, scoreVars, coherence_score,
                 llm_outcome, llm_result, derivedVars, report, response>>
  /\ UNCHANGED runVars
  /\ UNCHANGED sideVars

\* analyzer.py 165-167
ApplyFallaciesStep ==
  /\ pc = "fallacies"
  /\ analyses' = ApplyFallacies(analyses, Get(llm_result, "fallacies_detected", << >>))
  /\ pc' = StageAfter(pc)
  /\ UNCHANGED <<entry, inputVars, analyzer_invoked, ambiguous, scoreVars, coherence_score,
                 llm_outcome, llm_result, derivedVars, report, response>>
  /\ UNCHANGED runVars
  /\ UNCHANGED sideVars

\* analyzer.py 173-190
DerivedAnalyses ==
  /\ pc = "derive"
  /\ IF AuditRaises(analyses, Sentences, Corrections)
     THEN /\ UNCHANGED <<audit_table, bias_analysis, logic_chain, weakness_report,
                         consistency_issues>>
          /\ pc' = "raised"
     ELSE /\ audit_table' = BuildAuditTable(analyses, Sentences, Corrections)
          /\ logic_chain' = BuildLogicChain(analyses, Sentences)
          /\ weakness_report' = BuildWeaknessReport(analyses, Sentences)
          /\ consistency_issues' = CheckConsistency(analyses, Sentences)
          /\ bias_analysis' = DetectBias(Thesis)
          /\ pc' = StageAfter(pc)
  /\ UNCHANGED <<entry, inputVars, analyzer_invoked, analyses, ambiguous, scoreVars,
                 coherence_score, llm_outcome, llm_result, report, response>>
  /\ UNCHANGED runVars
  /\ UNCHANGED <<stance_input, score_input, component, template_embeddings, callers,
                 gate_input, gate_result, chain_input>>

\* analyzer.py 196-240
AssembleReport ==
  /\ pc = "assemble"
  /\ IF AssembleRaises(llm_result)
     THEN /\ UNCHANGED report
          /\ pc' = "raised"
     ELSE /\ report' = BuildReport(evidence_score, coherence_score, clarity_score, risk_score,
                                   action_score, analyses, llm_result, audit_table,
                                   logic_chain, weakness_report, consistency_issues,
                                   bias_analysis)
          /\ pc' = StageAfter(pc)
  /\ UNCHANGED <<entry, inputVars, analyzer_invoked, analyses, ambiguous, scoreVars,
                 coherence_score, llm_outcome, llm_result, derivedVars, response>>
  /\ UNCHANGED runVars
  /\ UNCHANGED sideVars

\* main.py 92: result = await analyzer.analyze(text).  analyze is a plain
\* method, so the await is applied to the StrengthReport it returned and
\* raises TypeError, which the except clause turns into a response
EndpointAfterAnalyze ==
  /\ pc = "returned"
  /\ entry = "endpoint"
  /\ response' = ExceptClause("TypeError")
  /\ pc' = "done"
  /\ UNCHANGED <<entry, inputVars, analyzer_invoked, analyses, ambiguous, scoreVars,
                 coherence_score, llm_outcome, llm_result, derivedVars, report>>
  /\ UNCHANGED runVars
  /\ UNCHANGED sideVars

\* main.py 96-98: analyze raised
EndpointAfterRaise ==
  /\ pc = "raised"
  /\ entry = "endpoint"
  /\ response' = ExceptClause("Exception")
  /\ pc' = "done"
  /\ UNCHANGED <<entry, inputVars, analyzer_invoked, analyses, ambiguous, scoreVars,
                 coherence_score, llm_outcome, llm_result, derivedVars, report>>
  /\ UNCHANGED runVars
  /\ UNCHANGED sideVars

Next ==
  \/ \E d \in UploadPool : AnalyzeThesisReject(d)
  \/ \E d \in UploadPool : AnalyzeThesisAccept(d)
  \/ \E d \in ThesisPool : DirectCall(d)
  \/ \E e \in EmbedOutcomes : ClassifySentence(e)
  \/ QuantitativeScoring
  \/ LLMClientUnavailable
  \/ LLMError
  \/ LLMSuccess
  \/ ApplyCorrectionsStep
  \/ ApplyFallaciesStep
  \/ DerivedAnalyses
  \/ AssembleReport
  \/ EndpointAfterRaise
  \/ EndpointAfterAnalyze

Spec == Init /\ [][Next]_vars

-----------------------------------------------------------------------------
(* _build_audit_table on its own: a classified text, then the correction    *)
(* list of an LLM response of any length up to MaxAuditCorrections, then    *)
(* lines 159-173 of analyze.  A list longer than CorrectionPeriod repeats   *)
(* its first CorrectionPeriod entries.                                      *)

MaxAuditCorrections == 17

CorrectionPeriod == 3

\* the classifier's result for text d when the embedder always answers e
RECURSIVE ClassifyFrom(_, _, _)
ClassifyFrom(d, e, k) ==
  IF k > Len(d.sentences) THEN << >>
  ELSE <<SentenceAnalysis(d.sentences[k], e, k - 1, Len(d.sentences))>>
         \o ClassifyFrom(d, e, k + 1)

InitAudit ==
  /\ pc = "audit_input"
  /\ entry = "direct"
  /\ thesis_text \in {d.name : d \in ThesisPool}
  /\ analyzer_invoked = TRUE
  /\ \E e \in EmbedOutcomes : analyses = ClassifyFrom(Thesis, e, 1)
  /\ ambiguous = << >>
  /\ evidence_score = 0
  /\ clarity_score = 0
  /\ risk_score = 0
  /\ action_score = 0
  /\ coherence_score = 0
  /\ llm_outcome = "ok"
  /\ llm_result = [classification_corrections |-> << >>]
  /\ audit_table = << >>
  /\ bias_analysis = << >>
  /\ report = << >>
  /\ response = 0
  /\ bias_input = << >>
  /\ embedder = << >>
  /\ templates_loaded = FALSE
  /\ first_run = << >>
  /\ SideInit

\* the response carries one more correction
AddCorrection(c) ==
  /\ pc = "audit_input"
  /\ Len(Corrections) < MaxAuditCorrections
  /\ IF Len(Corrections) < CorrectionPeriod THEN TRUE
     ELSE c = Corrections[Len(Corrections) + 1 - CorrectionPeriod]
  /\ llm_result' = [classification_corrections |-> Append(Corrections, c)]
  /\ UNCHANGED <<pc, entry, inputVars, analyzer_invoked, analyses, ambiguous, scoreVars,
                 coherence_score, llm_outcome, derivedVars, report, response>>
  /\ UNCHANGED runVars
  /\ UNCHANGED sideVars

\* analyzer.py 159-173
CorrectAndAudit ==
  /\ pc = "audit_input"
  /\ analyses' = ApplyCorrections(analyses, Corrections)
  /\ audit_table' = BuildAuditTable(analyses', Sentences, Corrections)
  /\ pc' = "audit_done"
  /\ UNCHANGED <<entry, inputVars, analyzer_invoked, ambiguous, scoreVars, coherence_score,
                 llm_outcome, llm_result, bias_analysis, report, response>>
  /\ UNCHANGED runVars
  /\ UNCHANGED sideVars

NextAudit ==
  \/ \E c \in CorrectionPool : AddCorrection(c)
  \/ CorrectAndAudit

SpecAudit == InitAudit /\ [][NextAudit]_vars

-----------------------------------------------------------------------------
(* _detect_bias on its own, for every number of sentiment words a text can  *)
(* contain                                                                  *)

\* the two negative words that are counter patterns are held apart
BiasInputs ==
  [positive_words : 0..NumPositiveWords,
   negative_words : 0..(NumNegativeWords - 2),
   has_risk : BOOLEAN,
   has_downside : BOOLEAN,
   other_counter : BOOLEAN]

InitBias ==
  /\ pc = "bias_input"
  /\ entry = "direct"
  /\ thesis_text = "none"
  /\ analyzer_invoked = TRUE
  /\ analyses = << >>
  /\ ambiguous = << >>
  /\ evidence_score = 0
  /\ clarity_score = 0
  /\ risk_score = 0
  /\ action_score = 0
  /\ coherence_score = 0
  /\ llm_outcome = "none"
  /\ llm_result = << >>
  /\ audit_table = << >>
  /\ bias_analysis = << >>
  /\ report = << >>
  /\ response = 0
  /\ bias_input \in BiasInputs
  /\ embedder = << >>
  /\ templates_loaded = FALSE
  /\ first_run = << >>
  /\ SideInit

DetectBiasCall ==
  /\ pc = "bias_input"
  /\ bias_analysis' = DetectBias(bias_input)
  /\ pc' = "bias_done"
  /\ UNCHANGED <<entry, inputVars, analyzer_invoked, analyses, ambiguous, scoreVars,
                 coherence_score, llm_outcome, llm_result, audit_table, report, response>>
  /\ UNCHANGED runVars
  /\ UNCHANGED sideVars

NextBias == DetectBiasCall

SpecBias == InitBias /\ [][NextBias]_vars

-----------------------------------------------------------------------------
(* _apply_corrections and _apply_fallacies on their own: a classified text  *)
(* and the two lists of an LLM response; the corrections are applied, then  *)
(* applied once more, then the fallacies are applied.                       *)

MaxFallacyBatch == 2

\* a reference of the form "2: <text of sentence s>": its digits name
\* sentence k and it contains the text of s
NumberedQuoteRef(s, k) == [text |-> s.text, first_int |-> k, chars |-> s.chars + 3]

\* corrections as in CorrectionPool, one without "sentence_index" and one
\* without "correct_type"
CorrectionBatchPool ==
  CorrectionPool
    \cup {[ml_type |-> "FACT", correct_type |-> "PROJECTION", reason |-> "forecast"],
          [sentence_index |-> 1, ml_type |-> "FACT", reason |-> "reviewed"]}

\* fallacies as in FallacyPool, one without "sentence_reference" and one
\* that names sentence 2 both by number and by quote
FallacyBatchPool(sents) ==
  FallacyPool(sents)
    \cup {[type |-> "hasty generalization", explanation |-> "too few cases"]}
    \cup {[sentence_reference |-> NumberedQuoteRef(sents[k], k), type |-> "circular reasoning",
           explanation |-> "restates the claim"] : k \in {j \in DOMAIN sents : j = 2}}

ApplyTexts == {TextShort, TextStrong, TextWeak}

InitApply ==
  /\ pc = "apply_input"
  /\ entry = "direct"
  /\ thesis_text \in {d.name : d \in ApplyTexts}
  /\ analyzer_invoked = TRUE
  /\ \E e \in EmbedOutcomes : analyses = ClassifyFrom(Thesis, e, 1)
  /\ ambiguous = << >>
  /\ evidence_score = 0
  /\ clarity_score = 0
  /\ risk_score = 0
  /\ action_score = 0
  /\ coherence_score = 0
  /\ llm_outcome = "ok"
  /\ \E cs \in SeqsUpTo(CorrectionBatchPool, MaxCorrections) :
       \E fs \in SeqsUpTo(FallacyBatchPool(Sentences), MaxFallacyBatch) :
         llm_result = [classification_corrections |-> cs, fallacies_detected |-> fs]
  /\ audit_table = << >>
  /\ bias_analysis = << >>
  /\ report = << >>
  /\ response = 0
  /\ bias_input = << >>
  /\ embedder = << >>
  /\ templates_loaded = FALSE
  /\ first_run = << >>
  /\ SideInit

Fallacies == Get(llm_result, "fallacies_detected", << >>)

\* analyzer.py 673-682
ApplyCorrectionsCall ==
  /\ pc = "apply_input"
  /\ analyses' = ApplyCorrections(analyses, Corrections)
  /\ pc' = "corrected"
  /\ UNCHANGED <<entry, inputVars, analyzer_invoked, ambiguous, scoreVars, coherence_score,
                 llm_outcome, llm_result, derivedVars, report, response>>
  /\ UNCHANGED runVars
  /\ UNCHANGED sideVars

\* _apply_corrections called again with the same list
ReapplyCorrections ==
  /\ pc = "corrected"
  /\ analyses' = ApplyCorrections(analyses, Corrections)
  /\ pc' = "recorrected"
  /\ UNCHANGED <<entry, inputVars, analyzer_invoked, ambiguous, scoreVars, coherence_score,
                 llm_outcome, llm_result, derivedVars, report, response>>
  /\ UNCHANGED runVars
  /\ UNCHANGED sideVars

\* analyzer.py 684-706
ApplyFallaciesCall ==
  /\ pc = "recorrected"
  /\ analyses' = ApplyFallacies(analyses, Fallacies)
  /\ pc' = "annotated"
  /\ UNCHANGED <<entry, inputVars, analyzer_invoked, ambiguous, scoreVars, coherence_score,
                 llm_outcome, llm_result, derivedVars, report, response>>
  /\ UNCHANGED runVars
  /\ UNCHANGED sideVars

NextApply ==
  \/ ApplyCorrectionsCall
  \/ ReapplyCorrections
  \/ ApplyFallaciesCall

SpecApply == InitApply /\ [][NextApply]_vars

-----------------------------------------------------------------------------
(* _classify_sentences_ml run twice on one text with a deterministic        *)
(* embedder, after another text was classified or not.  What one run leaves *)
(* behind for the next is the template cache of templates.py.               *)

\* the ambiguous list of a classifier result, from position k on
RECURSIVE AmbiguousFrom(_, _)
AmbiguousFrom(list, k) ==
  IF k > Len(list) THEN << >>
  ELSE (IF IsAmbiguous(list[k]) THEN <<AmbiguousEntry(k - 1)>> ELSE << >>)
         \o AmbiguousFrom(list, k + 1)

\* an answer that needs the template cache to be there already
EmbeddingVoteColdStart(answers, k, loaded) == IF loaded THEN answers[k] ELSE EmbedFailure

\* templates.py 167-184: get_embedding_vote computes the templates on first
\* use and reads the cache afterwards; the answer is the same either way
EmbeddingVote(answers, k, loaded) == answers[k]

\* templates.py 102-118: the cache is filled by the first call that gets
\* through
TemplatesLoaded(d, answers, loaded, k) ==
  loaded \/ \E j \in 1..k : UseEmbeddings(d.sentences[j]) /\ answers[j].ok

\* the classifier's result for text d from sentence k on
RECURSIVE ClassifyWith(_, _, _, _)
ClassifyWith(d, answers, loaded, k) ==
  IF k > Len(d.sentences) THEN << >>
  ELSE <<SentenceAnalysis(d.sentences[k], EmbeddingVote(answers, k, TemplatesLoaded(d, answers, loaded, k - 1)),
                          k - 1, Len(d.sentences))>>
         \o ClassifyWith(d, answers, loaded, k + 1)

InitTwice ==
  /\ pc = "run_input"
  /\ entry = "direct"
  /\ thesis_text \in {d.name : d \in ThesisPool}
  /\ analyzer_invoked = TRUE
  /\ analyses = << >>
  /\ ambiguous = << >>
  /\ evidence_score = 0
  /\ clarity_score = 0
  /\ risk_score = 0
  /\ action_score = 0
  /\ coherence_score = 0
  /\ llm_outcome = "none"
  /\ llm_result = << >>
  /\ audit_table = << >>
  /\ bias_analysis = << >>
  /\ report = << >>
  /\ response = 0
  /\ bias_input = << >>
  /\ embedder \in [DOMAIN Sentences -> EmbedOutcomes]
  /\ templates_loaded = FALSE
  /\ first_run = << >>
  /\ SideInit

\* another text goes through the classifier first; its result is dropped
ClassifyEarlier(d, e) ==
  /\ pc = "run_input"
  /\ templates_loaded' = TemplatesLoaded(d, [k \in DOMAIN d.sentences |-> e], templates_loaded,
                                         Len(d.sentences))
  /\ pc' = "run_ready"
  /\ UNCHANGED <<entry, inputVars, analyzer_invoked, analyses, ambiguous, scoreVars,
                 coherence_score, llm_outcome, llm_result, derivedVars, report, response,
                 embedder, first_run>>
  /\ UNCHANGED sideVars

\* analyzer.py 311-482, first run on the text
RunClassifier ==
  /\ pc \in {"run_input", "run_ready"}
  /\ analyses' = ClassifyWith(Thesis, embedder, templates_loaded, 1)
  /\ ambiguous' = AmbiguousFrom(analyses', 1)
  /\ first_run' = [analyses |-> analyses', ambiguous |-> ambiguous']
  /\ templates_loaded' = TemplatesLoaded(Thesis, embedder, templates_loaded, Len(Sentences))
  /\ pc' = "ran_once"
  /\ UNCHANGED <<entry, inputVars, analyzer_invoked, scoreVars, coherence_score,
                 llm_outcome, llm_result, derivedVars, report, response, embedder>>
  /\ UNCHANGED sideVars

\* analyzer.py 311-482, second run on the same text
RunClassifierAgain ==
  /\ pc = "ran_once"
  /\ analyses' = ClassifyWith(Thesis, embedder, templates_loaded, 1)
  /\ ambiguous' = AmbiguousFrom(analyses', 1)
  /\ templates_loaded' = TemplatesLoaded(Thesis, embedder, templates_loaded, Len(Sentences))
  /\ pc' = "ran_twice"
  /\ UNCHANGED <<entry, inputVars, analyzer_invoked, scoreVars, coherence_score,
                 llm_outcome, llm_result, derivedVars, report, response, embedder, first_run>>
  /\ UNCHANGED sideVars

NextTwice ==
  \/ \E d \in ThesisPool : \E e \in EmbedOutcomes : ClassifyEarlier(d, e)
  \/ RunClassifier
  \/ RunClassifierAgain

SpecTwice == InitTwice /\ [][NextTwice]_vars


-----------------------------------------------------------------------------
(* _check_consistency on its own, for every way the stance keywords and the *)
(* contrast connectors can fall on the sentences of a short text            *)

MaxStanceSentences == 3

\* what _check_consistency reads of a sentence: whether its lowered text
\* contains a word of bullish_words, a word of bearish_words, and "however"
\* or "but"
StanceSentences == [bullish : BOOLEAN, bearish : BOOLEAN, contrast : BOOLEAN]

StanceInputs == UNION {[1..n -> StanceSentences] : n \in 0..MaxStanceSentences}

\* the sentence records as the classifier numbers them
IndexedAnalyses(sents) == [k \in DOMAIN sents |-> [index |-> k]]

InitConsistency ==
  /\ pc = "stance_input"
  /\ entry = "direct"
  /\ thesis_text = "none"
  /\ analyzer_invoked = TRUE
  /\ stance_input \in StanceInputs
  /\ analyses = IndexedAnalyses(stance_input)
  /\ ambiguous = << >>
  /\ evidence_score = 0
  /\ clarity_score = 0
  /\ risk_score = 0
  /\ action_score = 0
  /\ coherence_score = 0
  /\ llm_outcome = "none"
  /\ llm_result = << >>
  /\ audit_table = << >>
  /\ bias_analysis = << >>
  /\ report = << >>
  /\ response = 0
  /\ bias_input = << >>
  /\ embedder = << >>
  /\ templates_loaded = FALSE
  /\ first_run = << >>
  /\ consistency_issues = << >>
  /\ score_input = << >>
  /\ component = << >>
  /\ logic_chain = << >>
  /\ weakness_report = << >>
  /\ template_embeddings = [set |-> FALSE, table |-> << >>]
  /\ callers = << >>
  /\ gate_input = << >>
  /\ gate_result = << >>
  /\ chain_input = << >>

CheckConsistencyCall ==
  /\ pc = "stance_input"
  /\ consistency_issues' = CheckConsistency(analyses, stance_input)
  /\ pc' = "stance_done"
  /\ UNCHANGED <<entry, inputVars, analyzer_invoked, analyses, ambiguous, scoreVars,
                 coherence_score, llm_outcome, llm_result, derivedVars, report, response,
                 stance_input, score_input, component,
                 logic_chain, weakness_report, template_embeddings, callers,
                 gate_input, gate_result, chain_input>>
  /\ UNCHANGED runVars

NextConsistency == CheckConsistencyCall

SpecConsistency == InitConsistency /\ [][NextConsistency]_vars

-----------------------------------------------------------------------------
(* The four quantitative scorers on their own, for every combination of the *)
(* counts they read                                                         *)

MaxCount == 5

\* sizing_terms holds five terms
NumSizingTerms == 5

\* word counts for which the division of _score_clarity is exact
WordCounts == {0, 50, 100, 200, 400}

EvidenceInputs ==
  [numerical_data_count : 0..MaxCount, entity_count : 0..MaxCount,
   source_citation_count : 0..MaxCount, recent_dates : 0..MaxCount]

\* a text without words holds no stance word, target or vague word
ClarityInputs ==
  {f \in [stance_count : 0..MaxCount, target_count : 0..MaxCount,
          vague_word_count : 0..MaxCount, word_count : WordCounts] :
     f.word_count = 0 => (f.stance_count = 0 /\ f.target_count = 0 /\ f.vague_word_count = 0)}

\* "position size" is a mitigation term and a sizing term: a text with all
\* five sizing terms holds a mitigation term
RiskInputs ==
  {f \in [risk_count : 0..MaxCount, exit_count : 0..MaxCount,
          sizing_count : 0..Min(MaxCount, NumSizingTerms)] :
     f.sizing_count = NumSizingTerms => f.exit_count >= 1}

\* "exit when", "buy at" and "sell at" hold the strong terms "exit", "buy"
\* and "sell": of the seven entry_exit terms only four come without one
ActionInputs ==
  {f \in [action_count : 0..MaxCount, entry_count : 0..MaxCount,
          monitor_count : 0..MaxCount] :
     f.entry_count - 4 <= f.action_count}

ScoreInputs ==
  [scorer : {"Evidence Quality"}, features : EvidenceInputs]
    \cup [scorer : {"Clarity & Specificity"}, features : ClarityInputs]
    \cup [scorer : {"Risk Awareness"}, features : RiskInputs]
    \cup [scorer : {"Actionability"}, features : ActionInputs]

ComponentScore(name, score, breakdown) ==
  [name |-> name, score |-> score, breakdown |-> breakdown]

InitScore ==
  /\ pc = "score_input"
  /\ entry = "direct"
  /\ thesis_text = "none"
  /\ analyzer_invoked = TRUE
  /\ analyses = << >>
  /\ ambiguous = << >>
  /\ evidence_score = 0
  /\ clarity_score = 0
  /\ risk_score = 0
  /\ action_score = 0
  /\ coherence_score = 0
  /\ llm_outcome = "none"
  /\ llm_result = << >>
  /\ audit_table = << >>
  /\ bias_analysis = << >>
  /\ report = << >>
  /\ response = 0
  /\ bias_input = << >>
  /\ embedder = << >>
  /\ templates_loaded = FALSE
  /\ first_run = << >>
  /\ stance_input = << >>
  /\ consistency_issues = << >>
  /\ score_input \in ScoreInputs
  /\ component = << >>
  /\ logic_chain = << >>
  /\ weakness_report = << >>
  /\ template_embeddings = [set |-> FALSE, table |-> << >>]
  /\ callers = << >>
  /\ gate_input = << >>
  /\ gate_result = << >>
  /\ chain_input = << >>

Scored(c) ==
  /\ component' = c
  /\ pc' = "scored"
  /\ UNCHANGED <<entry, inputVars, analyzer_invoked, analyses, ambiguous, scoreVars,
                 coherence_score, llm_outcome, llm_result, derivedVars, report, response,
                 stance_input, consistency_issues, score_input,
                 logic_chain, weakness_report, template_embeddings, callers,
                 gate_input, gate_result, chain_input>>
  /\ UNCHANGED runVars

ScoreEvidenceQualityCall ==
  /\ pc = "score_input"
  /\ score_input.scorer = "Evidence Quality"
  /\ Scored(ComponentScore("Evidence Quality", ScoreEvidenceQuality(score_input.features),
                           EvidenceBreakdown(score_input.features)))

ScoreClarityCall ==
  /\ pc = "score_input"
  /\ score_input.scorer = "Clarity & Specificity"
  /\ Scored(ComponentScore("Clarity & Specificity", ScoreClarity(score_input.features),
                           ClarityBreakdown(score_input.features)))

ScoreRiskAwarenessCall ==
  /\ pc = "score_input"
  /\ score_input.scorer = "Risk Awareness"
  /\ Scored(ComponentScore("Risk Awareness", ScoreRiskAwareness(score_input.features),
                           RiskBreakdown(score_input.features)))

ScoreActionabilityCall ==
  /\ pc = "score_input"
  /\ score_input.scorer = "Actionability"
  /\ Scored(ComponentScore("Actionability", ScoreActionability(score_input.features),
                           ActionBreakdown(score_input.features)))

NextScore ==
  \/ ScoreEvidenceQualityCall
  \/ ScoreClarityCall
  \/ ScoreRiskAwarenessCall
  \/ ScoreActionabilityCall

SpecScore == InitScore /\ [][NextScore]_vars

-----------------------------------------------------------------------------
(* templates.py 102-129: get_template_embeddings called by several threads  *)
(* at once, before anything is cached.  Each step is one read or write of   *)
(* the global, or one model.encode call.                                    *)

NumCallers == 3

\* lines 115-119: the keys of the dict display, in evaluation order
TemplateTypes == <<"FACT", "OPINION", "ASSUMPTION", "PROJECTION", "CONTEXT">>

\* model.encode(<type>_TEMPLATES): a pure function of the template list
Encode(t) == [templates_of |-> t]

EncodedSoFar(local, t) ==
  [u \in DOMAIN local \cup {t} |-> IF u \in DOMAIN local THEN local[u] ELSE Encode(u)]

\* a variant that assigns an empty dict to the global first and fills it key
\* by key
PublishedAfterEncodeInPlace(global, local) == [set |-> TRUE, table |-> local]

\* lines 114-120: the dict display is evaluated in full before the name
\* _template_embeddings is bound, so an encode call leaves the global alone
PublishedAfterEncode(global, local) == global

InitCache ==
  /\ pc = "threads"
  /\ entry = "direct"
  /\ thesis_text = "none"
  /\ analyzer_invoked = FALSE
  /\ analyses = << >>
  /\ ambiguous = << >>
  /\ evidence_score = 0
  /\ clarity_score = 0
  /\ risk_score = 0
  /\ action_score = 0
  /\ coherence_score = 0
  /\ llm_outcome = "none"
  /\ llm_result = << >>
  /\ audit_table = << >>
  /\ bias_analysis = << >>
  /\ report = << >>
  /\ response = 0
  /\ bias_input = << >>
  /\ embedder = << >>
  /\ templates_loaded = FALSE
  /\ first_run = << >>
  /\ stance_input = << >>
  /\ consistency_issues = << >>
  /\ score_input = << >>
  /\ component = << >>
  /\ logic_chain = << >>
  /\ weakness_report = << >>
  /\ template_embeddings = [set |-> FALSE, table |-> << >>]
  /\ callers = [c \in 1..NumCallers |-> [pc |-> "check", local |-> << >>, result |-> << >>]]
  /\ gate_input = << >>
  /\ gate_result = << >>
  /\ chain_input = << >>

cacheFrame ==
  <<pc, entry, inputVars, analyzer_invoked, analyses, ambiguous, scoreVars, coherence_score,
    llm_outcome, llm_result, derivedVars, report, response, embedder, first_run,
    stance_input, consistency_issues, score_input, component, logic_chain, weakness_report,
    gate_input, gate_result, chain_input>>

\* line 109: if _template_embeddings is not None
CheckCache(c) ==
  /\ callers[c].pc = "check"
  /\ callers' = [callers EXCEPT ![c].pc = IF template_embeddings.set THEN "return" ELSE "encode"]
  /\ UNCHANGED <<template_embeddings, templates_loaded>>
  /\ UNCHANGED cacheFrame

\* lines 115-119: the next model.encode call of the dict display
EncodeNext(c) ==
  /\ callers[c].pc = "encode"
  /\ Cardinality(DOMAIN callers[c].local) < Len(TemplateTypes)
  /\ LET t == TemplateTypes[Cardinality(DOMAIN callers[c].local) + 1]
         local == EncodedSoFar(callers[c].local, t)
     IN  /\ callers' = [callers EXCEPT ![c].local = local]
         /\ template_embeddings' = PublishedAfterEncode(template_embeddings, local)
  /\ UNCHANGED templates_loaded
  /\ UNCHANGED cacheFrame

\* model.encode raises: the exception leaves get_template_embeddings
EncodeRaises(c) ==
  /\ callers[c].pc = "encode"
  /\ Cardinality(DOMAIN callers[c].local) < Len(TemplateTypes)
  /\ callers' = [callers EXCEPT ![c].pc = "raised", ![c].local = << >>]
  /\ UNCHANGED <<template_embeddings, templates_loaded>>
  /\ UNCHANGED cacheFrame

\* line 114: _template_embeddings = {...}
StoreCache(c) ==
  /\ callers[c].pc = "encode"
  /\ Cardinality(DOMAIN callers[c].local) = Len(TemplateTypes)
  /\ template_embeddings' = [set |-> TRUE, table |-> callers[c].local]
  /\ templates_loaded' = TRUE
  /\ callers' = [callers EXCEPT ![c].pc = "return", ![c].local = << >>]
  /\ UNCHANGED cacheFrame

\* lines 110 and 129: return _template_embeddings
ReturnCache(c) ==
  /\ callers[c].pc = "return"
  /\ callers' = [callers EXCEPT ![c].pc = "returned", ![c].result = template_embeddings.table]
  /\ UNCHANGED <<template_embeddings, templates_loaded>>
  /\ UNCHANGED cacheFrame

NextCache ==
  \/ \E c \in DOMAIN callers : CheckCache(c)
  \/ \E c \in DOMAIN callers : EncodeNext(c)
  \/ \E c \in DOMAIN callers : EncodeRaises(c)
  \/ \E c \in DOMAIN callers : StoreCache(c)
  \/ \E c \in DOMAIN callers : ReturnCache(c)

SpecCache == InitCache /\ [][NextCache]_vars

-----------------------------------------------------------------------------
(* One iteration of the loop of _classify_sentences_ml on its own, for      *)
(* sentences around the thresholds of the embedding gate and at every       *)
(* position of a short text                                                 *)

MaxListLen == 3

\* pattern_scores around pattern_total = 5 and pattern_max_score /
\* pattern_total = 0.7
PatternPool ==
  {TypeScores(0, 0, 0, 0, 0), TypeScores(3, 0, 0, 0, 0), TypeScores(2, 0, 0, 2, 0),
   TypeScores(8, 0, 0, 0, 0), TypeScores(7, 3, 0, 0, 0), TypeScores(6, 3, 0, 0, 0),
   TypeScores(0, 3, 0, 3, 0)}

\* len(sentence.strip()) and the number of whitespace characters inside it
LengthPool ==
  {[chars |-> 17, spaces |-> 2], [chars |-> 20, spaces |-> 0], [chars |-> 21, spaces |-> 0],
   [chars |-> 21, spaces |-> 3], [chars |-> 24, spaces |-> 4], [chars |-> 40, spaces |-> 6]}

\* "thesis" in sent_lower, and one of "therefore", "thus", "hence"
GateSentences ==
  {[pattern |-> p, chars |-> l.chars, spaces |-> l.spaces, thesis |-> th, concluding |-> co] :
     p \in PatternPool, l \in LengthPool, th \in BOOLEAN, co \in BOOLEAN}

\* the loop variable i and len(sentences)
Positions == {x \in [i : 0..(MaxListLen - 1), n : 1..MaxListLen] : x.i < x.n}

InitGate ==
  /\ pc = "gate_input"
  /\ entry = "direct"
  /\ thesis_text = "none"
  /\ analyzer_invoked = TRUE
  /\ analyses = << >>
  /\ ambiguous = << >>
  /\ evidence_score = 0
  /\ clarity_score = 0
  /\ risk_score = 0
  /\ action_score = 0
  /\ coherence_score = 0
  /\ llm_outcome = "none"
  /\ llm_result = << >>
  /\ audit_table = << >>
  /\ bias_analysis = << >>
  /\ report = << >>
  /\ response = 0
  /\ bias_input = << >>
  /\ embedder = << >>
  /\ templates_loaded = FALSE
  /\ first_run = << >>
  /\ stance_input = << >>
  /\ consistency_issues = << >>
  /\ score_input = << >>
  /\ component = << >>
  /\ logic_chain = << >>
  /\ weakness_report = << >>
  /\ template_embeddings = [set |-> FALSE, table |-> << >>]
  /\ callers = << >>
  /\ gate_input \in [sentence : GateSentences, at : Positions]
  /\ gate_result = << >>
  /\ chain_input = << >>

\* lines 378-465 for one sentence, with e the embedder's answer
ClassifyOne(e) ==
  /\ pc = "gate_input"
  /\ LET s == gate_input.sentence
         r == ScoreResult(s, e)
         t == FinalType(r)
     IN  /\ UseEmbeddings(s) \/ e = EmbedFailure
         /\ gate_result' = [queried |-> UseEmbeddings(s),
                            sentence_type |-> t,
                            confidence |-> Confidence(r),
                            role |-> Role(s, t, gate_input.at.i, gate_input.at.n)]
         /\ templates_loaded' = (UseEmbeddings(s) /\ e.ok)
  /\ pc' = "gate_done"
  /\ UNCHANGED <<entry, inputVars, analyzer_invoked, analyses, ambiguous, scoreVars,
                 coherence_score, llm_outcome, llm_result, derivedVars, report, response,
                 embedder, first_run, stance_input, consistency_issues, score_input, component,
                 logic_chain, weakness_report, template_embeddings, callers, gate_input,
                 chain_input>>

NextGate == \E e \in EmbedOutcomes : ClassifyOne(e)

SpecGate == InitGate /\ [][NextGate]_vars

-----------------------------------------------------------------------------
(* _build_logic_chain on its own, for sentence lists long enough to pass    *)
(* the fifth position and the limit of five evidence references             *)

MaxChainLen == 6

\* the sentences a list is made of: a short FACT, a FACT, a sentence that
\* contains "thesis", a plain opinion
ChainKinds ==
  {[kind |-> "short fact", sentence_type |-> "FACT", chars |-> 15, thesis |-> FALSE],
   [kind |-> "fact", sentence_type |-> "FACT", chars |-> 40, thesis |-> FALSE],
   [kind |-> "thesis", sentence_type |-> "OPINION", chars |-> 40, thesis |-> TRUE],
   [kind |-> "opinion", sentence_type |-> "OPINION", chars |-> 40, thesis |-> FALSE]}

ChainInputs == UNION {[1..n -> ChainKinds] : n \in 0..MaxChainLen}

\* what _build_logic_chain reads of the sentence at position k; the text is
\* told apart by its position
ChainSentence(x, k) ==
  [text |-> <<x.kind, k>>, chars |-> x.chars, thesis |-> x.thesis, concluding |-> FALSE,
   counter |-> FALSE]

ChainSentences(input) == [k \in DOMAIN input |-> ChainSentence(input[k], k)]

\* the records the classifier leaves for these sentences
ChainAnalyses(input) ==
  [k \in DOMAIN input |->
     [index |-> k,
      text |-> ChainSentence(input[k], k).text,
      sentence_type |-> input[k].sentence_type,
      support_level |-> "PARTIAL",
      role |-> Role(ChainSentence(input[k], k), input[k].sentence_type, k - 1, Len(input)),
      confidence |-> <<1, 1>>,
      issues |-> << >>]]

InitChain ==
  /\ pc = "chain_input"
  /\ entry = "direct"
  /\ thesis_text = "none"
  /\ analyzer_invoked = TRUE
  /\ chain_input \in ChainInputs
  /\ analyses = ChainAnalyses(chain_input)
  /\ ambiguous = << >>
  /\ evidence_score = 0
  /\ clarity_score = 0
  /\ risk_score = 0
  /\ action_score = 0
  /\ coherence_score = 0
  /\ llm_outcome = "none"
  /\ llm_result = << >>
  /\ audit_table = << >>
  /\ bias_analysis = << >>
  /\ report = << >>
  /\ response = 0
  /\ bias_input = << >>
  /\ embedder = << >>
  /\ templates_loaded = FALSE
  /\ first_run = << >>
  /\ stance_input = << >>
  /\ consistency_issues = << >>
  /\ score_input = << >>
  /\ component = << >>
  /\ logic_chain = << >>
  /\ weakness_report = << >>
  /\ template_embeddings = [set |-> FALSE, table |-> << >>]
  /\ callers = << >>
  /\ gate_input = << >>
  /\ gate_result = << >>

BuildLogicChainCall ==
  /\ pc = "chain_input"
  /\ logic_chain' = BuildLogicChain(analyses, ChainSentences(chain_input))
  /\ pc' = "chain_done"
  /\ UNCHANGED <<entry, inputVars, analyzer_invoked, analyses, ambiguous, scoreVars,
                 coherence_score, llm_outcome, llm_result, derivedVars, report, response,
                 stance_input, consistency_issues, score_input, component, weakness_report,
                 template_embeddings, callers, gate_input, gate_result, chain_input>>
  /\ UNCHANGED runVars

NextChain == BuildLogicChainCall

SpecChain == InitChain /\ [][NextChain]_vars
-----------------------------------------------------------------------------
(* Properties *)

\* analyze has returned a StrengthReport
HasReport == pc \in {"returned", "done"} /\ report # << >>

Elements(seq) == {seq[k] : k \in DOMAIN seq}

\* C1: the overall score of every report analyze returns is the sum of its
\* five component scores, whatever the adjudication step returned.
OverallIsSumOfComponents ==
  HasReport =>
    report.overall_score =
      report.evidence_quality + report.logical_coherence + report.clarity
        + report.risk_awareness + report.actionability

\* a report built from a parsed response whose coherence total is its own
ReportWithLLMCoherence ==
  /\ HasReport
  /\ llm_outcome = "ok"
  /\ report.logical_coherence = Pts(20)
  /\ report.evidence_quality > 0
  /\ report.overall_score > Pts(20)

\* C2: each of the five component scores of a report lies in [0, 20] and
\* the overall score in [0, 100].
ComponentScoresInRange ==
  HasReport =>
    /\ \A score \in {report.evidence_quality, report.logical_coherence, report.clarity,
                     report.risk_awareness, report.actionability} :
         0 <= score /\ score <= Pts(20)
    /\ 0 <= report.overall_score /\ report.overall_score <= Pts(100)

GradeRank(grade) ==
  CASE grade = "A" -> 4
    [] grade = "B" -> 3
    [] grade = "C" -> 2
    [] grade = "D" -> 1
    [] OTHER -> 0

\* C3: the grade of a report is A from 90, B from 75, C from 60, D from 45
\* and F below, on the overall score, and no higher score gets a worse grade.
GradeIsStepFunction ==
  HasReport =>
    LET score == report.overall_score
    IN  /\ report.grade = "A" <=> score >= Pts(90)
        /\ report.grade = "B" <=> (Pts(75) <= score /\ score < Pts(90))
        /\ report.grade = "C" <=> (Pts(60) <= score /\ score < Pts(75))
        /\ report.grade = "D" <=> (Pts(45) <= score /\ score < Pts(60))
        /\ report.grade = "F" <=> score < Pts(45)
        /\ \A other \in 0..Pts(105) :
             /\ other <= score => GradeRank(CalculateGrade(other)) <= GradeRank(report.grade)
             /\ other >= score => GradeRank(CalculateGrade(other)) >= GradeRank(report.grade)

\* a report sitting exactly on the threshold of grade A
ReportAtGradeBoundary ==
  /\ HasReport
  /\ report.overall_score = Pts(90)
  /\ report.grade = "A"

\* C4: supported_percentage is 0 for an empty sentence list and otherwise
\* 100 * (sentences of the report with support level SUPPORTED) / (sentences
\* of the report).
SupportedPercentageIsRatio ==
  HasReport =>
    LET list == report.sentence_analyses
        supported == Cardinality({k \in DOMAIN list : list[k].support_level = "SUPPORTED"})
        p == report.supported_percentage
    IN  IF Len(list) = 0 THEN p[1] = 0
        ELSE p[1] * Len(list) = 100 * supported * p[2]

\* a report on three sentences of which one is supported
ReportWithMixedSupport ==
  /\ HasReport
  /\ Len(report.sentence_analyses) = 3
  /\ RatEq(report.supported_percentage, <<100, 3>>)
  /\ \E k \in DOMAIN report.sentence_analyses :
       report.sentence_analyses[k].support_level # "SUPPORTED"

\* the classifier has returned (corrections and fallacies may have followed)
AfterClassification ==
  /\ analyzer_invoked
  /\ pc \in {"llm", "corrections", "fallacies", "derive", "assemble", "returned", "raised", "done"}

\* C5: from the end of classification on, the sentence list has one record
\* per sentence of the segmenter, and the record at position k has index k
\* and the text of the k-th sentence.
SentenceListMatchesInput ==
  AfterClassification =>
    /\ Len(analyses) = Len(Sentences)
    /\ \A k \in DOMAIN analyses :
         /\ analyses[k].index = k
         /\ analyses[k].text = Sentences[k].text

\* three sentences after a correction and a fallacy annotation were applied
CorrectedAndAnnotatedList ==
  /\ pc = "derive"
  /\ Len(analyses) = 3
  /\ \E k \in DOMAIN analyses : analyses[k].confidence = <<19, 20>>
  /\ \E k \in DOMAIN analyses :
       \E j \in DOMAIN analyses[k].issues : analyses[k].issues[j].kind \in {"Fallback", "Fallacy"}

\* the state in which _classify_sentences_ml has just returned
ClassifierReturned == analyzer_invoked /\ pc = "llm"

\* C6 as stated: a sentence is in the ambiguous list under its sentence
\* index exactly when its confidence is below 0.55.
AmbiguousListedBySentenceIndex ==
  ClassifierReturned =>
    \A k \in DOMAIN analyses :
      RatLess(analyses[k].confidence, <<11, 20>>) <=> analyses[k].index \in Elements(ambiguous)

\* C6 amended: a sentence is in the ambiguous list, under its 0-based
\* position (sentence index - 1), exactly when its confidence is below 0.55.
AmbiguousListedByPosition ==
  ClassifierReturned =>
    /\ \A k \in DOMAIN analyses :
         RatLess(analyses[k].confidence, <<11, 20>>)
           <=> (analyses[k].index - 1) \in Elements(ambiguous)
    /\ \A j \in DOMAIN ambiguous : (ambiguous[j] + 1) \in DOMAIN analyses

\* a classified text with an ambiguous and a confident sentence
MixedAmbiguity ==
  /\ ClassifierReturned
  /\ \E k \in DOMAIN analyses : k > 1 /\ RatLess(analyses[k].confidence, <<11, 20>>)
  /\ \E k \in DOMAIN analyses : ~RatLess(analyses[k].confidence, <<11, 20>>)

\* C7: the audit table has at most 15 entries, in non-decreasing order of
\* sentence_index.
AuditTableCappedAndSorted ==
  pc = "audit_done" =>
    /\ Len(audit_table) <= 15
    /\ \A j, k \in DOMAIN audit_table :
         j < k => audit_table[j].sentence_index <= audit_table[k].sentence_index

\* more than 15 entries, out of order, were collected before sort and cut
AuditTableTruncated ==
  /\ pc = "audit_done"
  /\ LET entries == AuditEntries(analyses, Sentences, Corrections)
     IN  /\ Len(entries) > 15
         /\ \E j, k \in DOMAIN entries :
              j < k /\ entries[j].sentence_index > entries[k].sentence_index
  /\ Len(audit_table) = 15

\* C8: with a contrast or risk keyword in the text, is_biased is false and
\* bias_score is at most 0.5, for every count of sentiment words.
CounterArgumentsPreventBias ==
  (pc = "bias_done" /\ bias_analysis.counter_arguments_present) =>
    /\ ~bias_analysis.is_biased
    /\ ~RatLess(<<1, 2>>, bias_analysis.bias_score)

\* only positive words, and a contrast word: the damped score is exactly 0.5
OneSidedWithCounterArgument ==
  /\ pc = "bias_done"
  /\ bias_analysis.counter_arguments_present
  /\ bias_input.positive_words = NumPositiveWords
  /\ NegCount(bias_input) = 0
  /\ RatEq(bias_analysis.bias_score, <<1, 2>>)

\* C9: when the adjudication step fails (client unavailable, transport
\* error, unparsable response) the failure does not leave the pipeline and
\* the report carries the fallback: coherence 12, nothing applied, the stub
\* strengths.
LLMFailureIsAbsorbed ==
  llm_outcome \in {"client_unavailable", "error"} =>
    /\ pc # "raised"
    /\ HasReport =>
         /\ report.logical_coherence = Pts(12)
         /\ report.top_strengths = <<"Unable to analyze - LLM error">>
         /\ Corrections = << >>
         /\ Get(llm_result, "fallacies_detected", << >>) = << >>

\* C10: a text that is empty or shorter than 50 characters after trimming
\* never reaches the analyzer and is answered with a 4xx status.
ShortTextIsClientError ==
  (entry = "endpoint" /\ pc = "done" /\ TooShort(Thesis)) =>
    /\ ~analyzer_invoked
    /\ response \in 400..499

\* C11: a request whose text has at least 50 characters and on which every
\* stage of analyze completed is answered with a success status carrying
\* the report.
AcceptedRequestGetsReport ==
  (entry = "endpoint" /\ pc = "done" /\ ~TooShort(Thesis) /\ HasReport) =>
    response \in 200..299

\* a correction the code cannot apply to a list of n sentences: no index, an
\* index outside 1..n, or a type string that names no SentenceType
MalformedCorrection(c, n) ==
  \/ "sentence_index" \notin DOMAIN c
  \/ c.sentence_index < 1
  \/ c.sentence_index > n
  \/ ("correct_type" \in DOMAIN c /\ c.correct_type \notin SentenceType)

RECURSIVE WellFormedCorrections(_, _, _)
WellFormedCorrections(corrections, n, k) ==
  IF k > Len(corrections) THEN << >>
  ELSE (IF MalformedCorrection(corrections[k], n) THEN << >> ELSE <<corrections[k]>>)
         \o WellFormedCorrections(corrections, n, k + 1)

\* a fallacy that names no sentence of the list: no reference, or a number
\* outside the list in a reference that quotes no sentence
MalformedFallacy(f, list) ==
  \/ "sentence_reference" \notin DOMAIN f
  \/ /\ f.sentence_reference.first_int # -1
     /\ f.sentence_reference.first_int < 1 \/ f.sentence_reference.first_int > Len(list)
     /\ \A k \in DOMAIN list : f.sentence_reference.text # list[k].text

RECURSIVE WellFormedFallacies(_, _, _)
WellFormedFallacies(fallacies, list, k) ==
  IF k > Len(fallacies) THEN << >>
  ELSE (IF MalformedFallacy(fallacies[k], list) THEN << >> ELSE <<fallacies[k]>>)
         \o WellFormedFallacies(fallacies, list, k + 1)

\* C12: a malformed correction or fallacy changes no sentence, and the batch
\* it stands in has the effect of the batch without it: the well-formed
\* entries before and after it are applied.
MalformedEntriesAreSkipped ==
  [][/\ ApplyCorrectionsCall =>
          /\ analyses' = ApplyCorrections(analyses, WellFormedCorrections(Corrections, Len(analyses), 1))
          /\ \A k \in DOMAIN Corrections :
               MalformedCorrection(Corrections[k], Len(analyses)) =>
                 /\ ApplyCorrection(analyses, Corrections[k]) = analyses
                 /\ ApplyCorrection(analyses', Corrections[k]) = analyses'
     /\ ApplyFallaciesCall =>
          /\ analyses' = ApplyFallacies(analyses, WellFormedFallacies(Fallacies, analyses, 1))
          /\ \A k \in DOMAIN Fallacies :
               MalformedFallacy(Fallacies[k], analyses) =>
                 /\ ApplyFallacy(analyses, Fallacies[k]) = analyses
                 /\ ApplyFallacy(analyses', Fallacies[k]) = analyses'
    ]_vars

\* both batches held a malformed entry next to one that was applied
MalformedBesideApplied ==
  /\ pc = "annotated"
  /\ Len(Corrections) = 2
  /\ MalformedCorrection(Corrections[1], Len(analyses))
  /\ ~MalformedCorrection(Corrections[2], Len(analyses))
  /\ analyses[Corrections[2].sentence_index].confidence = <<19, 20>>
  /\ Len(Fallacies) = 2
  /\ ~MalformedFallacy(Fallacies[1], analyses)
  /\ MalformedFallacy(Fallacies[2], analyses)
  /\ \E k \in DOMAIN analyses :
       \E j \in DOMAIN analyses[k].issues : analyses[k].issues[j].kind \in {"Fallback", "Fallacy"}

\* C13: whatever a parsed LLM response holds (keys missing, values of the
\* wrong type), no read of it raises: analyze runs to its end and a report
\* is returned.
ParsedResponseNeverRaises ==
  llm_outcome = "ok" =>
    /\ pc # "raised"
    /\ pc = "done" => report # << >>

\* C14: when the embedding call raises for a sentence gated into the
\* embedding path, the sentence gets the type and confidence of the pattern
\* scores alone (arg-max type, or CONTEXT at 0.5 when nothing matched; else
\* min(1, 1.2 * max / max(total, 1))), and the classifier goes on with the
\* next sentence instead of raising.
EmbeddingFailureFallsBack ==
  [][(ClassifySentence(EmbedFailure) /\ UseEmbeddings(Sentences[Len(analyses) + 1])) =>
       LET pattern == Sentences[Len(analyses) + 1].pattern
           max_score == pattern[ArgMax(pattern)]
           total == SumScores(pattern)
           a == analyses'[Len(analyses')]
       IN  /\ a.sentence_type = (IF total = 0 THEN "CONTEXT" ELSE ArgMax(pattern))
           /\ IF total = 0 THEN RatEq(a.confidence, <<1, 2>>)
              ELSE IF 6 * max_score >= 5 * total THEN RatEq(a.confidence, <<1, 1>>)
              ELSE RatEq(a.confidence, <<6 * max_score, 5 * total>>)
           /\ pc' = "classify"
           /\ Len(analyses') = Len(analyses) + 1
    ]_vars

\* the classifier returned a list in which a gated sentence with pattern
\* hits, not the last one, carries the pattern-only result and neither vote's
EmbeddingFailedMidList ==
  /\ ClassifierReturned
  /\ \E k \in DOMAIN analyses :
       /\ k < Len(analyses)
       /\ UseEmbeddings(Sentences[k])
       /\ SumScores(Sentences[k].pattern) > 0
       /\ analyses[k] = SentenceAnalysis(Sentences[k], EmbedFailure, k - 1, Len(Sentences))
       /\ analyses[k] # SentenceAnalysis(Sentences[k], VoteFactLike, k - 1, Len(Sentences))
       /\ analyses[k] # SentenceAnalysis(Sentences[k], VoteProjectionLike, k - 1, Len(Sentences))

MainClaims(chain) == {k \in DOMAIN chain : chain[k].claim_type = "main_claim"}

\* C16 as stated: the logic chain of every report, also one on an empty
\* sentence list, has exactly one main_claim node.
OneMainClaimInEveryReport ==
  HasReport => Cardinality(MainClaims(report.logic_chain)) = 1

\* C16 amended: the logic chain of a report on a non-empty sentence list has
\* exactly one main_claim node, its first node, also when every sentence is
\* shorter than 20 characters; the logic chain of a report on an empty
\* sentence list is empty.
OneMainClaimUnlessEmpty ==
  HasReport =>
    IF report.sentence_analyses = << >> THEN report.logic_chain = << >>
    ELSE /\ MainClaims(report.logic_chain) = {1}
         /\ \E k \in DOMAIN report.sentence_analyses :
              report.logic_chain[1].claim = report.sentence_analyses[k].text

\* a report on sentences that are all shorter than 20 characters
ReportOnShortSentences ==
  /\ HasReport
  /\ Len(report.sentence_analyses) = 2
  /\ \A k \in DOMAIN Sentences : Sentences[k].chars < 20
  /\ report.logic_chain[1].claim = Sentences[1].text

\* C17 as stated: in every bias analysis, also for a text without any
\* sentiment word, positive_ratio + negative_ratio = 100 and bias_score is
\* in [0, 1].
RatiosAlwaysSumTo100 ==
  pc = "bias_done" =>
    LET p == bias_analysis.positive_ratio
        n == bias_analysis.negative_ratio
        b == bias_analysis.bias_score
    IN  /\ p[1] * n[2] + n[1] * p[2] = 100 * p[2] * n[2]
        /\ ~RatLess(b, <<0, 1>>)
        /\ ~RatLess(<<1, 1>>, b)

\* C17 amended: positive_ratio + negative_ratio = 100 when the text holds at
\* least one sentiment word and both ratios are 0 when it holds none;
\* bias_score is in [0, 1] in both cases.  (Exact fractions; the floats of
\* the code are within one unit in the last place of them.)
RatiosSumTo100UnlessNoSentiment ==
  pc = "bias_done" =>
    LET p == bias_analysis.positive_ratio
        n == bias_analysis.negative_ratio
        b == bias_analysis.bias_score
    IN  /\ IF bias_input.positive_words + NegCount(bias_input) = 0
           THEN RatEq(p, <<0, 1>>) /\ RatEq(n, <<0, 1>>)
           ELSE p[1] * n[2] + n[1] * p[2] = 100 * p[2] * n[2]
        /\ ~RatLess(p, <<0, 1>>) /\ ~RatLess(n, <<0, 1>>)
        /\ ~RatLess(b, <<0, 1>>)
        /\ ~RatLess(<<1, 1>>, b)

\* more negative than positive words: the ratios are 25 and 75 and the
\* score is 0.5
NegativeLeaningText ==
  /\ pc = "bias_done"
  /\ bias_input.positive_words = 1
  /\ NegCount(bias_input) = 3
  /\ ~bias_analysis.counter_arguments_present
  /\ RatEq(bias_analysis.negative_ratio, <<75, 1>>)
  /\ RatEq(bias_analysis.bias_score, <<1, 2>>)

\* the positions of the corrections of list cs that name sentence k with a
\* type string that is a semantic type
ValidCorrectionsOf(cs, k) ==
  {j \in DOMAIN cs : /\ Get(cs[j], "sentence_index", 0) = k
                     /\ "correct_type" \in DOMAIN cs[j]
                     /\ cs[j].correct_type \in SentenceType}

\* the positions of the corrections of list cs that name sentence k with a
\* type string that is no semantic type
InvalidCorrectionsOf(cs, k) ==
  {j \in DOMAIN cs : /\ Get(cs[j], "sentence_index", 0) = k
                     /\ "correct_type" \in DOMAIN cs[j]
                     /\ cs[j].correct_type \notin SentenceType}

\* C18: a correction with a valid type and an index in range sets the type
\* of its sentence (the last such correction of a list wins) and the
\* confidence to 0.95 and nothing else; a sentence named only by corrections
\* with an invalid type string keeps its record; applying the same list a
\* second time changes nothing.
CorrectionsApplyOnceAndForAll ==
  [][/\ ApplyCorrectionsCall =>
          /\ Len(analyses') = Len(analyses)
          /\ \A k \in DOMAIN analyses :
               LET valid == ValidCorrectionsOf(Corrections, k)
                   named == {j \in DOMAIN Corrections : Get(Corrections[j], "sentence_index", 0) = k}
               IN  /\ valid # {} =>
                        LET last == CHOOSE j \in valid : \A i \in valid : i <= j
                        IN  analyses'[k] =
                              [analyses[k] EXCEPT !.sentence_type = Corrections[last].correct_type,
                                                  !.confidence = <<19, 20>>]
                   /\ named \subseteq InvalidCorrectionsOf(Corrections, k) =>
                        analyses'[k] = analyses[k]
     /\ ReapplyCorrections => analyses' = analyses
    ]_vars

\* a list with a valid and an invalid correction of sentence 2 was applied
\* twice
ValidThenInvalidCorrection ==
  /\ pc = "recorrected"
  /\ Len(Corrections) = 2
  /\ ValidCorrectionsOf(Corrections, 2) = {1}
  /\ InvalidCorrectionsOf(Corrections, 2) = {2}
  /\ analyses[2].sentence_type = Corrections[1].correct_type
  /\ analyses[2].confidence = <<19, 20>>
  /\ analyses[1].confidence # <<19, 20>>

\* C19: after the fallacies of any list were applied, no sentence carries
\* the same fallacy issue string twice.
NoDuplicateFallacyIssues ==
  pc = "annotated" =>
    \A k \in DOMAIN analyses :
      \A i, j \in DOMAIN analyses[k].issues :
        (i < j /\ analyses[k].issues[i].kind \in {"Fallback", "Fallacy"}) =>
          analyses[k].issues[i] # analyses[k].issues[j]

\* C20: before truncation no sentence index occurs in two entries of the
\* audit table, also when the correction list names a sentence several
\* times.
OneAuditEntryPerSentence ==
  pc = "audit_done" =>
    LET entries == AuditEntries(analyses, Sentences, Corrections)
    IN  \A i, j \in DOMAIN entries :
          i < j => entries[i].sentence_index # entries[j].sentence_index


-----------------------------------------------------------------------------
(* Claims C21 to C30                                                        *)

IssuesNameTwoSentences ==
  pc = "stance_done" =>
    \A i \in DOMAIN consistency_issues :
      consistency_issues[i].sentence_a_index # consistency_issues[i].sentence_b_index

StagesInOrderOnFinalList ==
  /\ [](HasReport =>
          LET list == report.sentence_analyses
          IN  /\ report.audit_table = BuildAuditTable(list, Sentences, Corrections)
              /\ report.logic_chain = BuildLogicChain(list, Sentences)
              /\ report.weakness_report = BuildWeaknessReport(list, Sentences)
              /\ \A t \in {"FACT", "ASSUMPTION", "OPINION", "PROJECTION"} :
                   Cardinality({k \in DOMAIN list : list[k].sentence_type = t})
                     = (CASE t = "FACT" -> report.fact_count
                          [] t = "ASSUMPTION" -> report.assumption_count
                          [] t = "OPINION" -> report.opinion_count
                          [] t = "PROJECTION" -> report.projection_count))
  /\ [][LET order == <<"classify", "llm", "corrections", "fallacies", "derive",
                       "assemble", "returned">>
        IN  \A i \in 1..6 :
              (pc = order[i] /\ pc' # pc) => pc' \in {order[i + 1], "raised"}]_vars
  /\ [][/\ scoreVars' # scoreVars => (pc = "classify" /\ pc' = "llm")
        /\ llm_result' # llm_result => pc = "llm"
        /\ analyses' # analyses => pc \in {"classify", "corrections", "fallacies"}
        /\ <<audit_table, logic_chain, weakness_report>>'
             # <<audit_table, logic_chain, weakness_report>> => pc = "derive"
        /\ report' # report => pc = "assemble"]_vars

\* a report on a text whose second sentence the LLM retyped to FACT and
\* annotated with a fallacy: the weakness report lists it as an unquantified
\* claim, which it was not before the correction
ReportBuiltOnCorrectedList ==
  /\ HasReport
  /\ thesis_text = "TextBullish"
  /\ report.sentence_analyses[2].sentence_type = "FACT"
  /\ report.sentence_analyses[2].confidence = <<19, 20>>
  /\ \E j \in DOMAIN report.sentence_analyses[2].issues :
       report.sentence_analyses[2].issues[j].kind = "Fallback"
  /\ report.weakness_report.unquantified_claims = <<2>>
  /\ report.fact_count = 1

\* C24: however concurrent first calls of get_template_embeddings interleave,
\* every caller that returns holds the complete table of the five types, the
\* cache is never set to a table that lacks a type, and once set its content
\* is only replaced by an equal table.
TemplateCacheRaceIsBenign ==
  /\ [](\A c \in DOMAIN callers :
          callers[c].pc = "returned" =>
            /\ DOMAIN callers[c].result = {"FACT", "OPINION", "ASSUMPTION", "PROJECTION", "CONTEXT"}
            /\ \A t \in DOMAIN callers[c].result : callers[c].result[t] = Encode(t))
  /\ [](template_embeddings.set =>
          /\ DOMAIN template_embeddings.table
               = {"FACT", "OPINION", "ASSUMPTION", "PROJECTION", "CONTEXT"}
          /\ \A t \in DOMAIN template_embeddings.table :
               template_embeddings.table[t] = Encode(t))
  /\ [][template_embeddings.set => template_embeddings' = template_embeddings]_vars

\* one caller has returned from a set cache while another, which passed the
\* check before, is about to assign its own table
RedundantRecomputation ==
  \E c1, c2 \in DOMAIN callers :
    /\ callers[c1].pc = "returned"
    /\ callers[c2].pc = "encode"
    /\ Cardinality(DOMAIN callers[c2].local) = Len(TemplateTypes)
    /\ template_embeddings.set

\* C25 as stated: the classifier queries the embedding vote exactly when
\* (pattern_total < 5 or pattern_max_score / max(pattern_total, 1) < 0.7) and
\* the sentence has more than 20 non-whitespace characters; otherwise type
\* and confidence are those of the pattern scores alone.
GateCountsNonWhitespace ==
  pc = "gate_done" =>
    LET s == gate_input.sentence
        p == PatternResult(s)
        gated == /\ (p.total_num < 5 \/ 10 * p.max_num < 7 * Max(p.total_num, 1))
                 /\ s.chars - s.spaces > 20
    IN  /\ gate_result.queried = gated
        /\ ~gated => /\ gate_result.sentence_type = FinalType(p)
                     /\ gate_result.confidence = Confidence(p)

\* C25, amended: the length compared with 20 is that of the sentence without
\* its leading and trailing whitespace, inner whitespace included.
GateCountsStrippedLength ==
  pc = "gate_done" =>
    LET s == gate_input.sentence
        p == PatternResult(s)
        gated == /\ (p.total_num < 5 \/ 10 * p.max_num < 7 * Max(p.total_num, 1))
                 /\ s.chars > 20
    IN  /\ gate_result.queried = gated
        /\ ~gated => /\ gate_result.sentence_type = FinalType(p)
                     /\ gate_result.confidence = Confidence(p)

\* a sentence of 24 characters, 20 of them not whitespace, whose type the
\* embedding vote decided
EmbeddingDecidedShortWords ==
  /\ pc = "gate_done"
  /\ gate_input.sentence.chars = 24
  /\ gate_input.sentence.spaces = 4
  /\ gate_input.sentence.pattern = TypeScores(0, 3, 0, 3, 0)
  /\ gate_result.queried
  /\ gate_result.sentence_type = "PROJECTION"

\* C26: the role of a sentence is FOUNDATION if it is the first sentence or
\* contains "thesis"; else EVIDENCE if its type is FACT; else CONCLUSION if
\* it is the last sentence or contains a concluding connector; else BRIDGE;
\* never TANGENT.
RoleByFirstMatchingRule ==
  pc = "gate_done" =>
    LET s == gate_input.sentence
        first == gate_input.at.i = 0
        last == gate_input.at.i = gate_input.at.n - 1
        fact == gate_result.sentence_type = "FACT"
    IN  /\ (first \/ s.thesis) => gate_result.role = "Foundation"
        /\ (~(first \/ s.thesis) /\ fact) => gate_result.role = "Evidence"
        /\ (~(first \/ s.thesis) /\ ~fact /\ (last \/ s.concluding)) =>
             gate_result.role = "Conclusion"
        /\ (~(first \/ s.thesis) /\ ~fact /\ ~(last \/ s.concluding)) =>
             gate_result.role = "Bridge"
        /\ gate_result.role # "Tangent"

\* a FACT sentence that contains "thesis" and a concluding connector and
\* stands last in a text of three: the first rule wins
FoundationWinsOverEvidence ==
  /\ pc = "gate_done"
  /\ gate_input.at = [i |-> 2, n |-> 3]
  /\ gate_input.sentence.thesis
  /\ gate_input.sentence.concluding
  /\ gate_result.sentence_type = "FACT"
  /\ gate_result.role = "Foundation"

\* C27 as stated: the main-claim node is a sentence of at least 20
\* characters, the first among those with the maximal score ("thesis" +10,
\* FOUNDATION +5, FACT among the first five sentences +2), and names at most
\* five sentences as evidence, all of them FACT.
MainClaimIsLongSentence ==
  (pc = "chain_done" /\ analyses # << >>) =>
    LET score == [k \in DOMAIN analyses |->
                    (IF chain_input[k].thesis THEN 10 ELSE 0)
                      + (IF analyses[k].role = "Foundation" THEN 5 ELSE 0)
                      + (IF analyses[k].sentence_type = "FACT" /\ k <= 5 THEN 2 ELSE 0)]
        long == {k \in DOMAIN analyses : chain_input[k].chars >= 20}
        node == logic_chain[1]
    IN  /\ node.claim_type = "main_claim"
        /\ \E k \in long :
             /\ node.claim = analyses[k].text
             /\ \A j \in long : score[j] <= score[k]
             /\ \A j \in long : j < k => score[j] < score[k]
        /\ Len(node.evidence_sentences) <= 5
        /\ \A i \in DOMAIN node.evidence_sentences :
             analyses[node.evidence_sentences[i]].sentence_type = "FACT"

\* C27, amended: that holds when some sentence has at least 20 characters;
\* when every sentence is shorter, the main-claim node is the first sentence.
MainClaimIsLongSentenceIfAny ==
  (pc = "chain_done" /\ analyses # << >>) =>
    LET score == [k \in DOMAIN analyses |->
                    (IF chain_input[k].thesis THEN 10 ELSE 0)
                      + (IF analyses[k].role = "Foundation" THEN 5 ELSE 0)
                      + (IF analyses[k].sentence_type = "FACT" /\ k <= 5 THEN 2 ELSE 0)]
        long == {k \in DOMAIN analyses : chain_input[k].chars >= 20}
        node == logic_chain[1]
    IN  /\ node.claim_type = "main_claim"
        /\ IF long = {} THEN node.claim = analyses[1].text
           ELSE \E k \in long :
                  /\ node.claim = analyses[k].text
                  /\ \A j \in long : score[j] <= score[k]
                  /\ \A j \in long : j < k => score[j] < score[k]
        /\ Len(node.evidence_sentences) <= 5
        /\ \A i \in DOMAIN node.evidence_sentences :
             analyses[node.evidence_sentences[i]].sentence_type = "FACT"

\* six short FACT sentences: the main claim is the first of them, and five of
\* the six are named as evidence
ShortMainClaimWithFiveRefs ==
  /\ pc = "chain_done"
  /\ Len(analyses) = 6
  /\ \A k \in DOMAIN chain_input : chain_input[k].kind = "short fact"
  /\ logic_chain[1].claim = analyses[1].text
  /\ logic_chain[1].evidence_sentences = <<1, 2, 3, 4, 5>>

\* C28: applying corrections and applying fallacies leave the length of the
\* sentence list and every sentence's index, text, support level and role as
\* the classifier assigned them, and only append to the issue lists: the
\* issues a sentence had are, in their order, the first of those it has after.
ApplyStepsKeepStructure ==
  [][/\ Len(analyses') = Len(analyses)
     /\ \A k \in DOMAIN analyses :
          /\ analyses'[k].index = analyses[k].index
          /\ analyses'[k].text = analyses[k].text
          /\ analyses'[k].support_level = analyses[k].support_level
          /\ analyses'[k].role = analyses[k].role
          /\ Len(analyses'[k].issues) >= Len(analyses[k].issues)
          /\ SubSeq(analyses'[k].issues, 1, Len(analyses[k].issues)) = analyses[k].issues]_vars

\* a sentence the classifier gave an issue was retyped by a correction and
\* given a further issue by a fallacy
RetypedAndAnnotatedAfterOwnIssue ==
  /\ pc = "annotated"
  /\ \E k \in DOMAIN analyses :
       /\ analyses[k].confidence = <<19, 20>>
       /\ Len(analyses[k].issues) >= 2
       /\ analyses[k].issues[1].kind \notin {"Fallback", "Fallacy"}
       /\ analyses[k].issues[Len(analyses[k].issues)].kind \in {"Fallback", "Fallacy"}

\* C29 as stated: in the sentence list of every report every sentence with
\* role EVIDENCE has type FACT, and the logic chain has as many
\* supporting_evidence nodes as there are sentences with role EVIDENCE.
EvidenceRoleIsFactInReport ==
  HasReport =>
    /\ \A k \in DOMAIN report.sentence_analyses :
         report.sentence_analyses[k].role = "Evidence"
           => report.sentence_analyses[k].sentence_type = "FACT"
    /\ Cardinality({i \in DOMAIN report.logic_chain :
                      report.logic_chain[i].claim_type = "supporting_evidence"})
         = Cardinality({k \in DOMAIN report.sentence_analyses :
                          report.sentence_analyses[k].role = "Evidence"})

\* C29, amended: every sentence the classifier gives role EVIDENCE has type
\* FACT when the classifier returns; in a report the logic chain has as many
\* supporting_evidence nodes as there are sentences with role EVIDENCE and
\* type FACT, which a correction can make fewer than those with role EVIDENCE.
EvidenceNodesAreFactsWithEvidenceRole ==
  /\ ClassifierReturned =>
       \A k \in DOMAIN analyses :
         analyses[k].role = "Evidence" => analyses[k].sentence_type = "FACT"
  /\ HasReport =>
       Cardinality({i \in DOMAIN report.logic_chain :
                      report.logic_chain[i].claim_type = "supporting_evidence"})
         = Cardinality({k \in DOMAIN report.sentence_analyses :
                          /\ report.sentence_analyses[k].role = "Evidence"
                          /\ report.sentence_analyses[k].sentence_type = "FACT"})

\* a report in which a correction made an EVIDENCE sentence an OPINION:
\* the sentence keeps its role and has no supporting_evidence node
CorrectedEvidenceSentenceInReport ==
  /\ HasReport
  /\ \E k \in DOMAIN report.sentence_analyses :
       /\ report.sentence_analyses[k].role = "Evidence"
       /\ report.sentence_analyses[k].sentence_type = "OPINION"
       /\ report.sentence_analyses[k].confidence = <<19, 20>>
       /\ \A i \in DOMAIN report.logic_chain :
            report.logic_chain[i].claim_type = "supporting_evidence"
              => report.logic_chain[i].evidence_sentences # <<k>>
====
